---- MODULE Spec2Model ----
(***************************************************************************)
(* Preference-learning core of engram3: PreferenceModel (fit, prediction,  *)
(* evaluation, feature selection) and PreferenceDataset (participant       *)
(* splits).                                                                *)
(*                                                                         *)
(* Numbers are integers: a posterior holds NSamples = 2 draws of integer   *)
(* weights, so a mean is carried as the sum of the two draws (twice the    *)
(* mean) and a standard deviation as their absolute difference (twice the  *)
(* population std).  Probabilities are in thousandths.                     *)
(***************************************************************************)
EXTENDS Integers, Sequences, FiniteSets, TLC

VARIABLES
    model,      \* the PreferenceModel instance (self): its attributes
    ret,        \* outcome of the last operation: returned value or raised exception
    sel,        \* frame of a running select_features call (locals and position)
    split,      \* the saved split file, and whether the last split call made a new split
    fits,       \* number of fit() calls made on the instance so far
    importance_calculator,  \* self.importance_calculator: its tracking fields
    saved       \* the file written by save(): the pickled dictionary, or None

vars == <<model, ret, sel, split, fits, importance_calculator, saved>>

\* Python None, and a present value: <<>> and <<x>>
None == <<>>
Some(x) == <<x>>
Val(o) == o[1]

\* ------------------------------------------------------------------ bounds
\* number of successful fits followed in one behaviour of the lifecycle
MaxFits == 2

\* ------------------------------------------------------- sequence helpers
InSeq(x, s) == \E i \in 1..Len(s) : s[i] = x

ToSet(s) == {s[i] : i \in 1..Len(s)}

RECURSIVE DedupeFrom(_, _)
DedupeFrom(s, acc) ==
    IF s = <<>> THEN acc
    ELSE DedupeFrom(Tail(s), IF InSeq(Head(s), acc) THEN acc ELSE Append(acc, Head(s)))

\* list(dict.fromkeys(s)): first occurrences, in order
Dedupe(s) == DedupeFrom(s, <<>>)

\* the element of a one-element set: The({e(x) : x \in {v}}) computes v once
\* and then e
The(S) == CHOOSE x \in S : TRUE

Abs(x) == IF x < 0 THEN -x ELSE x

RECURSIVE SumSeq(_)
SumSeq(s) == IF s = <<>> THEN 0 ELSE Head(s) + SumSeq(Tail(s))

RECURSIVE Gcd(_, _)
Gcd(a, b) == IF b = 0 THEN a ELSE Gcd(b, a % b)

\* a non-negative fraction num/den (den > 0) in lowest terms
Ratio(num, den) == LET g == Gcd(num, den) IN <<num \div g, den \div g>>
RZero == <<0, 1>>
RLess(a, b) == a[1] * b[2] < b[1] * a[2]
RAbs(a) == <<Abs(a[1]), a[2]>>
RMax(a, b) == IF RLess(a, b) THEN b ELSE a
\* a / b for b > 0
RDiv(a, b) == Ratio(a[1] * b[2], a[2] * b[1])
\* max(0, a - b)
RMonus(a, b) == IF RLess(b, a) THEN Ratio(a[1] * b[2] - b[1] * a[2], a[2] * b[2]) ELSE RZero

\* ----------------------------------------------------------- configuration
\* config.features.control_features
control_features == <<"c">>

\* [f for f in features if f not in control_features]
MainOf(features) == SelectSeq(features, LAMBDA f : ~InSeq(f, control_features))

\* ------------------------------------------------------- feature provider
\* extract_bigram_features(char1, char2): a table of named feature values.
\* <<"g","h">> lacks feature "p"; <<"z","z">> makes the extractor raise.
ExtractorRaises(bigram) == bigram = <<"z", "z">>

extract_bigram_features(bigram) ==
    CASE bigram = <<"a", "b">> -> [p |-> 2, n |-> 0, c |-> 1]
      [] bigram = <<"c", "d">> -> [p |-> 0, n |-> 1, c |-> 0]
      [] bigram = <<"g", "h">> -> [n |-> 1, c |-> 0]
      [] OTHER -> [c |-> 0]

\* bigrams: two valid ones, one with a missing feature, one the extractor
\* rejects, one of the wrong length
AB == <<"a", "b">>
CD == <<"c", "d">>
GH == <<"g", "h">>
\* the (bigram1, bigram2) queries made: a pair and its reverse, and one
\* pair for each way a query can go wrong
QueryPairs ==
    {<<AB, CD>>, <<CD, AB>>, <<GH, AB>>, <<AB, <<"z", "z">>>>, <<<<"a", "b", "c">>, AB>>}

\* features.get(name, 0.0)
GetOr0(features, name) == IF name \in DOMAIN features THEN features[name] ELSE 0

\* ---------------------------------------------------------------- datasets
Pref(b1, b2, pid, preferred) ==
    [bigram1 |-> b1, bigram2 |-> b2, participant_id |-> pid, preferred |-> preferred]

\* pref.features1 / pref.features2: the precomputed table row of each bigram
Features1(pref) == extract_bigram_features(pref.bigram1)
Features2(pref) == extract_bigram_features(pref.bigram2)

MkDataset(name, prefs) ==
    [file_path |-> name,
     preferences |-> prefs,
     participants |-> {prefs[i].participant_id : i \in 1..Len(prefs)},
     feature_names |-> <<"p", "n", "c">>,
     feature_extractor |-> "extractor"]

\* both outcomes present
DataMixed == MkDataset("mixed", <<Pref(AB, CD, "P1", TRUE), Pref(CD, AB, "P2", FALSE)>>)
\* a bigram whose feature row lacks "p"
DataMissing == MkDataset("missing", <<Pref(GH, AB, "P1", TRUE), Pref(AB, GH, "P2", FALSE)>>)
\* no preferences
DataEmpty == MkDataset("empty", <<>>)

\* ------------------------------------------------------ inference engine
\* CmdStanModel.sample(data=stan_data, ...): the returned fit object, with
\* stan_variable('beta') of shape 2 x F and stan_variable('gamma') 2 x C
Sample(stan_data, draw, gen) ==
    [gen |-> gen,
     beta |-> <<[i \in 1..stan_data.F |-> draw[1]], [i \in 1..stan_data.F |-> draw[2]]>>,
     gamma |-> <<[i \in 1..stan_data.C |-> draw[3]], [i \in 1..stan_data.C |-> draw[3]]>>]

\* ------------------------------------------------------- PreferenceModel
\* __init__
NewModel ==
    [fit_result |-> None,
     feature_names |-> None,
     selected_features |-> <<>>,
     dataset |-> None,
     feature_weights |-> None,
     feature_extractor |-> None,
     is_baseline_model |-> FALSE,
     prediction_cache |-> <<>>]

Raised(op, exc, stage) == [op |-> op, kind |-> "raise", exc |-> exc, stage |-> stage]

Returned(op, value) == [op |-> op, kind |-> "value", value |-> value]

\* CacheManager: a key -> value store.  Its size cap (eviction of the oldest
\* entries) is far above the number of keys used here.
CacheGet(cache, key) == IF key \in DOMAIN cache THEN Some(cache[key]) ELSE None

CacheSet(cache, key, value) ==
    [k \in DOMAIN cache \cup {key} |-> IF k = key THEN value ELSE cache[k]]

CacheClear(cache) == <<>>

\* clear_caches
clear_caches(self) == [self EXCEPT !.prediction_cache = CacheClear(@)]

\* np.std(values) = 0 for the values prepare_data collects for one feature
\* over the whole dataset: the standardization of every row divides by zero
ZeroStd(dataset, feature) ==
    Cardinality(UNION {{GetOr0(Features1(dataset.preferences[i]), feature),
                        GetOr0(Features2(dataset.preferences[i]), feature)} :
                       i \in 1..Len(dataset.preferences)}) <= 1

\* feature_stats[feature]['values']: both bigrams' values of every preference
FeatureValueList(dataset, feature) ==
    [k \in 1..(2 * Len(dataset.preferences)) |->
        IF k % 2 = 1 THEN GetOr0(Features1(dataset.preferences[(k + 1) \div 2]), feature)
        ELSE GetOr0(Features2(dataset.preferences[k \div 2]), feature)]

\* np.mean and np.std of the values: count, sum, and the variance (std
\* squared) as a fraction
FeatureStats(values) ==
    LET count == Len(values)
        sum == SumSeq(values)
        squares == SumSeq([k \in 1..count |-> values[k] * values[k]])
    IN  [count |-> count, sum |-> sum,
         var |-> Ratio(count * squares - sum * sum, count * count)]

\* (feat - mean) / std: the value (centered / count) / sqrt(var)
Standardize(feat, stats) ==
    [centered |-> feat * stats.count - stats.sum, count |-> stats.count, var |-> stats.var]

\* the participant ids in sorted order
SortedIds == <<"P1", "P2", "P3", "P4", "P5">>

\* participant_map: the position of pid in sorted(dataset.participants)
participant_map(dataset, pid) ==
    Cardinality({k \in 1..Len(SortedIds) :
                    /\ SortedIds[k] \in dataset.participants
                    /\ \E m \in k..Len(SortedIds) : SortedIds[m] = pid})

\* y.append(1) for every row
YAlwaysOne(pref) == 1

\* y.append(1 if pref.preferred else 0)
YOf(pref) == IF pref.preferred THEN 1 ELSE 0

\* prepare_data: sets self.feature_names, standardizes, builds the package.
\* A row whose standardization fails is skipped; the call raises when no
\* row is left (also for a dataset without preferences).
prepare_data(self, dataset, features) ==
    LET s1 == [self EXCEPT !.feature_names = Some(features)]
        main_features == Dedupe(MainOf(features))
        is_control_only == main_features = <<>>
        used == ToSet(main_features) \cup ToSet(control_features)
        \* the package of the rows kept, given the statistics of each feature
        Package(kept, stats) ==
            LET Matrix(features_of, names) ==
                    [i \in 1..Len(kept) |-> [j \in 1..Len(names) |->
                        Standardize(GetOr0(features_of[i], names[j]), stats[names[j]])]]
                Dummy == [i \in 1..Len(kept) |->
                             <<[centered |-> 0, count |-> 1, var |-> <<1, 1>>]>>]
                kept1 == [i \in 1..Len(kept) |-> Features1(kept[i])]
                kept2 == [i \in 1..Len(kept) |-> Features2(kept[i])]
            IN  [N |-> Len(kept),
                 P |-> Cardinality(dataset.participants),
                 F |-> IF is_control_only THEN 1 ELSE Len(main_features),
                 C |-> Len(control_features),
                 X1 |-> IF is_control_only THEN Dummy ELSE Matrix(kept1, main_features),
                 X2 |-> IF is_control_only THEN Dummy ELSE Matrix(kept2, main_features),
                 C1 |-> Matrix(kept1, control_features),
                 C2 |-> Matrix(kept2, control_features),
                 participant |-> [i \in 1..Len(kept) |->
                                     participant_map(dataset, kept[i].participant_id)],
                 y |-> [i \in 1..Len(kept) |-> YOf(kept[i])]]
    IN  The({ IF kept = <<>>
              THEN [self |-> s1, raised |-> TRUE, data |-> None]
              ELSE The({ [self |-> s1, raised |-> FALSE, data |-> Package(kept, stats)] :
                         stats \in {[f \in used |->
                                       FeatureStats(FeatureValueList(dataset, f))]} }) :
              kept \in {IF \E f \in used : ZeroStd(dataset, f) THEN <<>>
                        ELSE SelectSeq(dataset.preferences,
                                 LAMBDA pref : pref.participant_id \in dataset.participants)} })

\* column i of a 2-draw sample matrix as (2 * mean, 2 * std)
WeightOf(samples, i) == <<samples[1][i] + samples[2][i], Abs(samples[1][i] - samples[2][i])>>

\* _update_feature_weights
_update_feature_weights(self) ==
    LET main_features == Dedupe(MainOf(Val(self.feature_names)))
        beta == Val(self.fit_result).beta
        gamma == Val(self.fit_result).gamma
        mainIdx == {i \in 1..Len(main_features) : i <= Len(beta[1])}
        names == {main_features[i] : i \in mainIdx} \cup ToSet(control_features)
        IndexIn(s, f) == CHOOSE i \in 1..Len(s) : s[i] = f
    IN  [self EXCEPT !.feature_weights = Some(
            [f \in names |->
                IF InSeq(f, control_features)
                THEN WeightOf(gamma, IndexIn(control_features, f))
                ELSE WeightOf(beta, IndexIn(main_features, f))])]

\* a fit that keeps the main features only
FitSelectedMainOnly(main_features) == Dedupe(main_features)

\* fit(): list(dict.fromkeys(main_features + control_features))
FitSelected(main_features) == Dedupe(main_features \o control_features)

\* what fit() does when posterior sampling raises: the except clause logs,
\* removes temp files and re-raises the engine's exception
FitOnSamplingError(self) ==
    [self |-> self, ret |-> Raised("fit", "EngineError", "sample") @@ [sample_calls |-> 1]]

\* what one call of the engine does: raise, or return posterior draws;
\* <<w1, w2, g>> gives every main column weight w1 in the first draw and w2
\* in the second, and every control column weight g in both
EngineOutcomes ==
    {[raises |-> TRUE, draw |-> <<0, 0, 0>>]}
        \cup {[raises |-> FALSE, draw |-> d] : d \in {<<1, 1, 0>>, <<-1, 1, 1>>}}

\* fit(dataset, features)
fit(self, dataset, features, engine) ==
    LET s1 == [self EXCEPT !.dataset = Some(dataset),
                           !.feature_extractor = Some(dataset.feature_extractor)]
        feats == IF features = <<>> THEN dataset.feature_names ELSE features
    IN  IF feats = <<>>
        THEN [self |-> s1, ret |-> Raised("fit", "ValueError", "validate")]
        ELSE LET main_features == MainOf(feats)
                 s2 == [s1 EXCEPT
                          !.feature_names = Some(FitSelected(main_features)),
                          !.selected_features = FitSelected(main_features)]
             IN  The({IF prep.raised
                      THEN [self |-> prep.self, ret |-> Raised("fit", "ValueError", "prepare")]
                      ELSE IF engine.raises
                      THEN FitOnSamplingError(prep.self)
                      ELSE [self |-> _update_feature_weights(
                                       [prep.self EXCEPT !.fit_result =
                                           \* the fit object of the n-th successful
                                           \* fit of an instance is numbered n
                                           Some(Sample(prep.data, engine.draw,
                                                IF self.fit_result = None THEN 1
                                                ELSE Val(self.fit_result).gen + 1))]),
                            ret |-> Returned("fit", None) @@ [sample_calls |-> 1]]
                      : prep \in {prepare_data(s2, dataset, feats)}})

\* 1 / (1 + exp(-x)) in thousandths, for x given in halves
Logistic(x2) ==
    LET up == <<622, 731, 818, 881, 924, 953, 971, 982>>
        pos(k) == IF k = 0 THEN 500 ELSE IF k <= Len(up) THEN up[k] ELSE 999
    IN  IF x2 >= 0 THEN pos(x2) ELSE 1000 - pos(-x2)

\* ModelPrediction(probability=0.5, uncertainty=1.0, features_used=[])
NeutralPrediction == [probability |-> 500, uncertainty |-> 2, features_used |-> <<>>, gen |-> 0]

\* np.dot(diffs, samples.T) for draw s
Dot(diffs, samples, s) == SumSeq([i \in 1..Len(diffs) |-> diffs[i] * samples[s][i]])

\* an except clause that catches ValueError only: any other exception
\* reaches the caller
PredictOnErrorValueErrorOnly(self, exc) ==
    IF exc = "ValueError"
    THEN [self |-> self,
          ret |-> Returned("predict_preference", NeutralPrediction)
                  @@ [failed |-> TRUE, exc |-> exc, cached |-> FALSE]]
    ELSE [self |-> self, ret |-> Raised("predict_preference", exc, "body")]

\* the except clause of predict_preference: every Exception becomes the
\* neutral prediction
PredictOnError(self, exc) ==
    [self |-> self,
     ret |-> Returned("predict_preference", NeutralPrediction)
             @@ [failed |-> TRUE, exc |-> exc, cached |-> FALSE]]

\* np.array([features1[f] - features2[f] for f in names])
FeatureDiffs(names, features1, features2) ==
    [i \in 1..Len(names) |-> features1[names[i]] - features2[names[i]]]

\* a predict_preference whose except clause stores the neutral prediction
\* it returns
predict_preference_caching_fallback(self, bigram1, bigram2) ==
    IF self.fit_result = None
    THEN [self |-> self, ret |-> Raised("predict_preference", "NotFittedError", "check")]
    ELSE
    LET cache_key == <<bigram1, bigram2>>
        cached_prediction == CacheGet(self.prediction_cache, cache_key)
        main_features == MainOf(self.selected_features)
        features1 == extract_bigram_features(bigram1)
        features2 == extract_bigram_features(bigram2)
        beta == Val(self.fit_result).beta
        gamma == Val(self.fit_result).gamma
        main_diffs == FeatureDiffs(main_features, features1, features2)
        control_diffs == FeatureDiffs(control_features, features1, features2)
        main1 == IF main_features # <<>> THEN Dot(main_diffs, beta, 1) ELSE 0
        main2 == IF main_features # <<>> THEN Dot(main_diffs, beta, 2) ELSE 0
        ctrl1 == IF control_features # <<>> THEN Dot(control_diffs, gamma, 1) ELSE 0
        ctrl2 == IF control_features # <<>> THEN Dot(control_diffs, gamma, 2) ELSE 0
        prediction == [probability |-> Logistic(main1 + main2 + ctrl1 + ctrl2),
                       uncertainty |-> Abs(main1 - main2) + Abs(ctrl1 - ctrl2),
                       features_used |-> self.selected_features,
                       gen |-> Val(self.fit_result).gen]
        fallback == [self |-> [self EXCEPT !.prediction_cache =
                                   CacheSet(@, cache_key, NeutralPrediction)],
                     ret |-> Returned("predict_preference", NeutralPrediction)
                             @@ [failed |-> TRUE, exc |-> "Exception", cached |-> FALSE]]
    IN  IF Len(bigram1) # 2 \/ Len(bigram2) # 2
        THEN fallback
        ELSE IF cached_prediction # None
        THEN [self |-> self,
              ret |-> Returned("predict_preference", Val(cached_prediction))
                      @@ [failed |-> FALSE, exc |-> "none", cached |-> TRUE]]
        ELSE IF \/ main_features = <<>> /\ ~self.is_baseline_model
                \/ self.feature_extractor = None
                \/ ExtractorRaises(bigram1) \/ ExtractorRaises(bigram2)
                \/ \E i \in 1..Len(self.selected_features) :
                      self.selected_features[i] \notin (DOMAIN features1 \cap DOMAIN features2)
                \/ main_features # <<>> /\ Len(main_features) # Len(beta[1])
                \/ control_features # <<>> /\ Len(control_features) # Len(gamma[1])
        THEN fallback
        ELSE [self |-> [self EXCEPT !.prediction_cache = CacheSet(@, cache_key, prediction)],
              ret |-> Returned("predict_preference", prediction)
                      @@ [failed |-> FALSE, exc |-> "none", cached |-> FALSE]]

\* predict_preference(bigram1, bigram2)
predict_preference(self, bigram1, bigram2) ==
    IF self.fit_result = None
    THEN [self |-> self, ret |-> Raised("predict_preference", "NotFittedError", "check")]
    ELSE
    LET cache_key == <<bigram1, bigram2>>
        cached_prediction == CacheGet(self.prediction_cache, cache_key)
        main_features == MainOf(self.selected_features)
        features1 == extract_bigram_features(bigram1)
        features2 == extract_bigram_features(bigram2)
        beta == Val(self.fit_result).beta
        gamma == Val(self.fit_result).gamma
        main_diffs == FeatureDiffs(main_features, features1, features2)
        control_diffs == FeatureDiffs(control_features, features1, features2)
        main1 == IF main_features # <<>> THEN Dot(main_diffs, beta, 1) ELSE 0
        main2 == IF main_features # <<>> THEN Dot(main_diffs, beta, 2) ELSE 0
        ctrl1 == IF control_features # <<>> THEN Dot(control_diffs, gamma, 1) ELSE 0
        ctrl2 == IF control_features # <<>> THEN Dot(control_diffs, gamma, 2) ELSE 0
        prediction == [probability |-> Logistic(main1 + main2 + ctrl1 + ctrl2),
                       uncertainty |-> Abs(main1 - main2) + Abs(ctrl1 - ctrl2),
                       features_used |-> self.selected_features,
                       gen |-> Val(self.fit_result).gen]
    IN  IF Len(bigram1) # 2 \/ Len(bigram2) # 2
        THEN PredictOnError(self, "ValueError")
        ELSE IF cached_prediction # None
        THEN [self |-> self,
              ret |-> Returned("predict_preference", Val(cached_prediction))
                      @@ [failed |-> FALSE, exc |-> "none", cached |-> TRUE]]
        ELSE IF main_features = <<>> /\ ~self.is_baseline_model
        THEN PredictOnError(self, "ValueError")
        ELSE IF self.feature_extractor = None
        THEN PredictOnError(self, "AttributeError")
        ELSE IF ExtractorRaises(bigram1) \/ ExtractorRaises(bigram2)
        THEN PredictOnError(self, "ExtractorError")
        ELSE IF \E i \in 1..Len(main_features) :
                    main_features[i] \notin (DOMAIN features1 \cap DOMAIN features2)
        THEN PredictOnError(self, "KeyError")
        ELSE IF main_features # <<>> /\ Len(main_features) # Len(beta[1])
        THEN PredictOnError(self, "ShapeError")
        ELSE IF \E i \in 1..Len(control_features) :
                    control_features[i] \notin (DOMAIN features1 \cap DOMAIN features2)
        THEN PredictOnError(self, "KeyError")
        ELSE IF control_features # <<>> /\ Len(control_features) # Len(gamma[1])
        THEN PredictOnError(self, "ShapeError")
        ELSE [self |-> [self EXCEPT !.prediction_cache = CacheSet(@, cache_key, prediction)],
              ret |-> Returned("predict_preference", prediction)
                      @@ [failed |-> FALSE, exc |-> "none", cached |-> FALSE]]

\* the prediction loop of evaluate(): one predict_preference call per
\* preference, each through the prediction cache; a preference is skipped
\* when the call raises
RECURSIVE EvaluateLoop(_, _, _)
EvaluateLoop(self, prefs, acc) ==
    IF prefs = <<>> THEN [self |-> self, acc |-> acc]
    ELSE LET pref == Head(prefs)
         IN  The({IF r.ret.kind = "raise"
                  THEN EvaluateLoop(r.self, Tail(prefs), acc)
                  ELSE The({EvaluateLoop(r.self, Tail(prefs), acc2) : acc2 \in
                     {[predictions |-> Append(acc.predictions, r.ret.value.probability),
                       actuals |-> Append(acc.actuals, IF pref.preferred THEN 1 ELSE 0),
                       succeeded |-> acc.succeeded + (IF r.ret.failed THEN 0 ELSE 1)]}})
                  : r \in {predict_preference(self, pref.bigram1, pref.bigram2)}})

IsHalf(r) == 2 * r[1] = r[2]

\* the defaults evaluate() returns: accuracy 0.5, auc 0.5, n_evaluated 0
EvaluateDefaults == [accuracy |-> Ratio(1, 2), auc |-> Ratio(1, 2), n_evaluated |-> 0]

\* np.mean((predictions > 0.5) == actuals)
Accuracy(predictions, actuals) ==
    Ratio(Cardinality({i \in 1..Len(predictions) :
                          (predictions[i] > 500) <=> (actuals[i] = 1)}),
          Len(predictions))

\* sklearn roc_auc_score(actuals, predictions), both classes present:
\* (pairs ranked right + half the ties) / (positives * negatives)
RocAuc(predictions, actuals) ==
    LET pos == {i \in 1..Len(actuals) : actuals[i] = 1}
        neg == {i \in 1..Len(actuals) : actuals[i] = 0}
        won == {q \in pos \X neg : predictions[q[1]] > predictions[q[2]]}
        tied == {q \in pos \X neg : predictions[q[1]] = predictions[q[2]]}
    IN  Ratio(2 * Cardinality(won) + Cardinality(tied),
              2 * Cardinality(pos) * Cardinality(neg))

\* evaluate(dataset)
evaluate(self, dataset) ==
    IF self.fit_result = None
    THEN \* RuntimeError raised inside the try, caught by its except clause
         [self |-> self,
          ret |-> Returned("evaluate", EvaluateDefaults) @@ [succeeded |-> 0, fitted |-> FALSE]]
    ELSE The({
    LET predictions == loop.acc.predictions
        actuals == loop.acc.actuals
        extra == [succeeded |-> loop.acc.succeeded, fitted |-> TRUE]
    IN  IF predictions = <<>>
        THEN [self |-> loop.self, ret |-> Returned("evaluate", EvaluateDefaults) @@ extra]
        ELSE IF Cardinality(ToSet(actuals)) # 2
        THEN \* roc_auc_score raises ValueError, caught by the outer except
             [self |-> loop.self, ret |-> Returned("evaluate", EvaluateDefaults) @@ extra]
        ELSE [self |-> loop.self,
              ret |-> Returned("evaluate",
                         [accuracy |-> Accuracy(predictions, actuals),
                          auc |-> RocAuc(predictions, actuals),
                          n_evaluated |-> Len(predictions)]) @@ extra]
    : loop \in {EvaluateLoop(self, dataset.preferences,
                             [predictions |-> <<>>, actuals |-> <<>>, succeeded |-> 0])}})

\* get_feature_weights(include_control=False)
get_feature_weights(self) ==
    IF self.fit_result = None
    THEN [self |-> self, ret |-> Raised("get_feature_weights", "NotFittedError", "check")]
    ELSE LET s1 == IF self.feature_weights # None THEN self
                   ELSE _update_feature_weights(self)
             weights == Val(s1.feature_weights)
         IN  [self |-> s1,
              ret |-> Returned("get_feature_weights",
                         [f \in {g \in DOMAIN weights : ~InSeq(g, control_features)} |->
                             weights[f]])]

\* ---------------------------------------------------- PreferenceDataset
\* prefs[i] for a Python index i (0-based, negative counts from the end)
PyIndex(prefs, i) == IF i >= 0 THEN prefs[i + 1] ELSE prefs[Len(prefs) + i + 1]

\* a subset that keeps the participant set of the dataset it is taken from
SubsetParticipantsOfParent(dataset, prefs) == dataset.participants

\* _create_subset_dataset: {p.participant_id for p in subset.preferences}
SubsetParticipants(dataset, prefs) == {prefs[k].participant_id : k \in 1..Len(prefs)}

\* _create_subset_dataset(indices): indices at or above len(preferences) are
\* dropped; an empty list, or none left, raises ValueError
_create_subset_dataset(dataset, indices) ==
    LET n == Len(dataset.preferences)
        valid_indices == SelectSeq(indices, LAMBDA i : i < n)
    IN  IF Len(indices) = 0 \/ Len(valid_indices) = 0
        THEN [raised |-> TRUE, exc |-> "ValueError", value |-> None]
        ELSE IF \E k \in 1..Len(valid_indices) : valid_indices[k] < -n
        THEN [raised |-> TRUE, exc |-> "IndexError", value |-> None]
        ELSE LET prefs == [k \in 1..Len(valid_indices) |->
                              PyIndex(dataset.preferences, valid_indices[k])]
             IN  [raised |-> FALSE, exc |-> "none",
                  value |-> Some([dataset EXCEPT
                      !.preferences = prefs,
                      !.participants = SubsetParticipants(dataset, prefs)])]

\* 0-based indices of the preferences whose participant is in pids
\* (member = TRUE) or is not in pids (member = FALSE)
IndicesWhere(dataset, pids, member) ==
    SelectSeq([i \in 1..Len(dataset.preferences) |-> i - 1],
              LAMBDA i : (dataset.preferences[i + 1].participant_id \in pids) = member)

\* every fold holds n // k items
KFoldSizeFloor(n, k, i) == n \div k

\* sklearn KFold: the first n % k folds hold n // k + 1 items, the others n // k
KFoldSize(n, k, i) == (n \div k) + (IF i <= n % k THEN 1 ELSE 0)

RECURSIVE KFoldStart(_, _, _)
KFoldStart(n, k, i) == IF i = 1 THEN 0 ELSE KFoldStart(n, k, i - 1) + KFoldSize(n, k, i - 1)

\* _get_cv_splits(dataset, n_splits); order is list(dataset.participants)
\* after KFold's shuffle.  KFold raises when asked for fewer than two folds
\* and when there are fewer items than folds.
_get_cv_splits(dataset, n_splits, order) ==
    LET n == Len(order)
    IN  IF n_splits < 2 \/ n_splits > n
        THEN [raised |-> TRUE, splits |-> <<>>]
        ELSE [raised |-> FALSE,
              splits |-> [i \in 1..n_splits |->
                  LET val_participants ==
                          {order[j] : j \in (KFoldStart(n, n_splits, i) + 1)..
                                            (KFoldStart(n, n_splits, i) + KFoldSize(n, n_splits, i))}
                      train_participants == ToSet(order) \ val_participants
                  IN  [train |-> IndicesWhere(dataset, train_participants, TRUE),
                       val |-> IndicesWhere(dataset, train_participants, FALSE)]]]

\* ------------------------------------------ FeatureImportanceCalculator
\* _calculate_effect_consistency: n_splits
n_splits == 5

\* _init_tracking_variables
NewCalculator ==
    [_max_effect_seen |-> RZero,
     _max_consistency_seen |-> RZero,
     _baseline_accuracy |-> None,
     _max_effect |-> [control |-> RZero, main |-> RZero],
     _max_consistency |-> [control |-> RZero, main |-> RZero]]

\* reset_normalization_factors
reset_normalization_factors(calc) ==
    [calc EXCEPT !._max_effect = [control |-> RZero, main |-> RZero],
                 !._max_consistency = [control |-> RZero, main |-> RZero],
                 !._baseline_accuracy = None]

\* _get_default_metrics
_get_default_metrics ==
    [model_effect |-> RZero, effect_consistency |-> RZero, predictive_power |-> RZero]

\* 1 - clip(mean |e - mean(e)| / mean |e|, 0, 1) for fold effects e (given
\* as twice the fold weight means); 0 when every effect is 0
BaseConsistency(effects) ==
    LET n == Len(effects)
        total == SumSeq(effects)
        sumAbs == SumSeq([i \in 1..n |-> Abs(effects[i])])
        dev == SumSeq([i \in 1..n |-> Abs(n * effects[i] - total)])
        den == n * sumAbs
    IN  IF n = 0 \/ sumAbs = 0 THEN RZero
        ELSE Ratio(den - (IF dev < den THEN dev ELSE den), den)

\* the fold loop of _calculate_effect_consistency: each fold refits
\* self.model on the fold's training subset.  acc.effects collects the fold
\* weights, acc.seen every value self.model.selected_features takes.
RECURSIVE ConsistencyLoop(_, _, _, _, _, _, _)
ConsistencyLoop(self, feature, dataset, current_features, splits, engines, acc) ==
    IF splits = <<>> THEN [self |-> self, raised |-> FALSE, acc |-> acc]
    ELSE LET train_data == _create_subset_dataset(dataset, Head(splits).train)
             features_to_test == IF InSeq(feature, current_features) THEN current_features
                                 ELSE Append(current_features, feature)
         IN  IF train_data.raised
             THEN [self |-> self, raised |-> TRUE, acc |-> acc]
             ELSE The({
                  LET seen == acc.seen \cup {f.self.selected_features}
                  IN  IF f.ret.kind = "raise"
                      THEN [self |-> f.self, raised |-> TRUE,
                            acc |-> [acc EXCEPT !.seen = seen]]
                      ELSE The({The({ConsistencyLoop(w.self, feature, dataset, current_features,
                                        Tail(splits), Tail(engines), acc2) : acc2 \in
                              {[effects |-> IF feature \in DOMAIN w.ret.value
                                            THEN Append(acc.effects, w.ret.value[feature][1])
                                            ELSE acc.effects,
                                seen |-> seen]}})
                              : w \in {get_feature_weights(f.self)}})
                  : f \in {fit(self, Val(train_data.value), features_to_test, Head(engines))}})

\* _calculate_effect_consistency(feature, dataset, current_features); any
\* exception gives 0.0
_calculate_effect_consistency(self, feature, dataset, current_features, order, engines) ==
    The({IF cv.raised THEN [self |-> self, value |-> RZero, seen |-> {}]
         ELSE The({IF loop.raised
                   THEN [self |-> loop.self, value |-> RZero, seen |-> loop.acc.seen]
                   ELSE [self |-> loop.self, value |-> BaseConsistency(loop.acc.effects),
                         seen |-> loop.acc.seen]
                   : loop \in {ConsistencyLoop(self, feature, dataset, current_features,
                                   cv.splits, engines, [effects |-> <<>>, seen |-> {}])}})
         : cv \in {_get_cv_splits(dataset, n_splits, order)}})

\* a fresh instance set up by evaluate_feature (base_model, model_single)
HelperModel(self, features, baseline) ==
    [NewModel EXCEPT !.feature_extractor = self.feature_extractor,
                     !.feature_names = Some(features),
                     !.selected_features = features,
                     !.is_baseline_model = baseline]

\* evaluate_feature(feature, dataset, model, all_features,
\* current_selected_features); oracle gives what the engine does in each of
\* the fits made, and the shuffled participant order of the folds.
\* test_features (the list model_single is fitted on) and raw (raw_effect,
\* raw_consistency) are reported beside the metrics.
evaluate_feature(calc, self, feature, dataset, all_features, current_selected_features, oracle) ==
    LET needBase == calc._baseline_accuracy = None
        is_control_feature == InSeq(feature, control_features)
        test_features == IF is_control_feature THEN control_features
                         ELSE Append(control_features, feature)
        category == IF is_control_feature THEN "control" ELSE "main"
        \* the steps after the baseline: calc1 carries _baseline_accuracy
        Rest(calc1) ==
            The({IF singleFit.ret.kind = "raise"
                 THEN [calc |-> calc1, self |-> self, seen |-> {},
                       metrics |-> _get_default_metrics,
                       test_features |-> test_features, raw |-> None]
                 ELSE The({
                      LET baseline == Val(calc1._baseline_accuracy)
                          weights == get_feature_weights(singleFit.self).ret.value
                          weight == IF feature \in DOMAIN weights THEN weights[feature]
                                    ELSE <<0, 0>>
                          raw_effect == Ratio(Abs(weight[1]), 2)
                          maxEffect == RMax(calc1._max_effect_seen, raw_effect)
                          model_effect == IF RLess(RZero, maxEffect)
                                          THEN RDiv(raw_effect, maxEffect) ELSE RZero
                          maxCons == RMax(calc1._max_consistency_seen, cons.value)
                          effect_consistency == IF RLess(RZero, maxCons)
                                                THEN RDiv(cons.value, maxCons) ELSE RZero
                          raw_improvement == RMonus(test_accuracy, baseline)
                          max_possible == RMonus(<<1, 1>>, baseline)
                          predictive_power == IF RLess(RZero, max_possible)
                                              THEN RDiv(raw_improvement, max_possible)
                                              ELSE RZero
                      IN  [calc |-> [calc1 EXCEPT
                                       !._max_effect[category] = RMax(@, raw_effect),
                                       !._max_effect_seen = maxEffect,
                                       !._max_consistency[category] = RMax(@, cons.value),
                                       !._max_consistency_seen = maxCons],
                           self |-> cons.self,
                           seen |-> cons.seen,
                           metrics |-> [model_effect |-> model_effect,
                                        effect_consistency |-> effect_consistency,
                                        predictive_power |-> predictive_power,
                                        weight |-> weight],
                           test_features |-> test_features,
                           raw |-> Some([effect |-> raw_effect, consistency |-> cons.value])]
                      : cons \in {_calculate_effect_consistency(self, feature, dataset,
                                     current_selected_features \o control_features,
                                     oracle.order, oracle.folds)},
                        test_accuracy \in {evaluate(singleFit.self, dataset).ret.value.accuracy}})
                 : singleFit \in {fit(HelperModel(self, test_features,
                                          Len(test_features) = Len(control_features)),
                                      dataset, test_features, oracle.single)}})
    IN  IF ~needBase THEN Rest(calc)
        ELSE The({IF baseFit.ret.kind = "raise"
                  THEN [calc |-> calc, self |-> self, seen |-> {},
                        metrics |-> _get_default_metrics,
                        test_features |-> test_features, raw |-> None]
                  ELSE The({Rest(calc1) : calc1 \in
                          {[calc EXCEPT !._baseline_accuracy =
                               Some(evaluate(baseFit.self, dataset).ret.value.accuracy)]}})
                  : baseFit \in {fit(HelperModel(self, control_features, TRUE), dataset,
                                     control_features, oracle.base)}})

\* ---------------------------------------------------- model lifecycle
NoSel == [pc |-> "idle"]
\* no split file saved, no split created
NoSplit == [file |-> None, created |-> FALSE]

Init ==
    /\ model = NewModel
    /\ ret = [op |-> "init"]
    /\ sel = NoSel
    /\ split = NoSplit
    /\ fits = 0
    /\ importance_calculator = NewCalculator
    /\ saved = None

\* fit(dataset, features); features = <<>> stands for features=None
Fit ==
    /\ fits < MaxFits
    /\ \E dataset \in {DataMixed, DataMissing, DataEmpty},
          features \in {<<>>, <<"p", "c">>, <<"c", "p", "n">>, <<"c">>},
          engine \in EngineOutcomes :
          LET r == fit(model, dataset, features, engine)
          IN  /\ model' = r.self
              /\ ret' = r.ret
    /\ fits' = fits + 1
    /\ UNCHANGED <<sel, split, importance_calculator, saved>>

PredictPreference ==
    /\ \E q \in QueryPairs :
       \E r \in {predict_preference(model, q[1], q[2])} :
          /\ model' = r.self
          /\ ret' = r.ret @@ [cache_key |-> q]
    /\ UNCHANGED <<sel, split, fits, importance_calculator, saved>>

Evaluate ==
    /\ \E dataset \in
            {DataMixed, DataMissing, DataEmpty,
             \* one outcome only
             MkDataset("oneclass", <<Pref(AB, CD, "P1", TRUE), Pref(AB, CD, "P2", TRUE)>>)} :
          LET r == evaluate(model, dataset)
          IN  /\ model' = r.self
              /\ ret' = r.ret
    /\ UNCHANGED <<sel, split, fits, importance_calculator, saved>>

GetFeatureWeights ==
    /\ LET r == get_feature_weights(model)
       IN  /\ model' = r.self
           /\ ret' = r.ret
    /\ UNCHANGED <<sel, split, fits, importance_calculator, saved>>

ClearCaches ==
    /\ model' = clear_caches(model)
    /\ ret' = Returned("clear_caches", None)
    /\ UNCHANGED <<sel, split, fits, importance_calculator, saved>>

Next == Fit \/ PredictPreference \/ Evaluate \/ GetFeatureWeights \/ ClearCaches

Spec == Init /\ [][Next]_vars

\* ------------------------------------------------- lifecycle properties
Fitted == model.fit_result # None

\* C1: a prediction that predict_preference answers from the prediction
\* cache was computed from the posterior of the most recent fit (every
\* fit() empties the cache).
C1_CachedPredictionIsCurrent ==
    (ret.op = "predict_preference" /\ ret.kind = "value" /\ ret.cached)
        => ret.value.gen = Val(model.fit_result).gen

\* C2: while the model is unfit, predict_preference, evaluate and
\* get_feature_weights each fail with NotFittedError and return no value.
C2_UnfitQueriesRaiseNotFitted ==
    (~Fitted /\ ret.op \in {"predict_preference", "evaluate", "get_feature_weights"})
        => (ret.kind = "raise" /\ ret.exc = "NotFittedError")

\* C3: a fit() whose posterior sampling fails raises FitError and leaves
\* dataset, feature_names, selected_features, fit_result and feature_weights
\* as they were before the call.
C3_FailedFitKeepsState ==
    [][(fits' # fits /\ ret'.kind = "raise" /\ ret'.stage = "sample")
          => /\ ret'.exc = "FitError"
             /\ model'.dataset = model.dataset
             /\ model'.feature_names = model.feature_names
             /\ model'.selected_features = model.selected_features
             /\ model'.fit_result = model.fit_result
             /\ model'.feature_weights = model.feature_weights]_vars

\* C4: a fit() that fails because sampling failed has invoked the engine
\* more than once (the failed attempt was retried) before giving up.
C4_FitRetriesSampling ==
    (ret.op = "fit" /\ ret.kind = "raise" /\ ret.stage = "sample") => ret.sample_calls > 1

\* C5: on a fitted model predict_preference never raises, and a call that
\* failed internally returns probability 0.5 and uncertainty 1.0.
C5_FittedPredictNeverRaises ==
    (ret.op = "predict_preference" /\ Fitted)
        => /\ ret.kind = "value"
           /\ ret.failed => (ret.value.probability = 500 /\ ret.value.uncertainty = 2)

\* C5 witness: a query on a fitted model whose selected features no longer
\* match the posterior's columns came back neutral
C5_Witness ==
    /\ ret.op = "predict_preference" /\ Fitted
    /\ ret.kind = "value" /\ ret.failed /\ ret.exc = "ShapeError"
    /\ ret.value = NeutralPrediction

\* C6: evaluate on a fitted model in which no prediction succeeded returns
\* accuracy 0.5, auc 0.5 and n_evaluated 0 (failed predictions are not
\* counted).
C6_NoSuccessGivesDefaults ==
    (ret.op = "evaluate" /\ ret.fitted /\ ret.succeeded = 0)
        => /\ IsHalf(ret.value.accuracy)
           /\ IsHalf(ret.value.auc)
           /\ ret.value.n_evaluated = 0

\* ------------------------------------------------------ select_features
\* five participants, each preference over the same two bigrams; the last
\* participant answers against the others
DataFive ==
    MkDataset("five", <<Pref(AB, CD, "P1", TRUE), Pref(CD, AB, "P2", FALSE),
                        Pref(AB, CD, "P3", TRUE), Pref(CD, AB, "P4", FALSE),
                        Pref(AB, CD, "P5", FALSE)>>)

EngineReturns(draw) == [raises |-> FALSE, draw |-> draw]
EngineRaises == [raises |-> TRUE, draw |-> <<0, 0, 0>>]

\* what the engine does in the fits of one candidate's evaluation: the fit
\* of self (main), of base_model, of model_single and of the folds
Oracles ==
    LET strong == EngineReturns(<<1, 1, 0>>)
        zero == EngineReturns(<<0, 0, 0>>)
        wide == EngineReturns(<<-1, 1, 1>>)
        o1 == <<"P1", "P2", "P3", "P4", "P5">>
        o2 == <<"P4", "P2", "P5", "P1", "P3">>
    IN  {[main |-> strong, base |-> zero, single |-> strong,
          folds |-> <<strong, strong, strong, strong, strong>>, order |-> o1],
         [main |-> strong, base |-> zero, single |-> zero,
          folds |-> <<zero, zero, zero, zero, zero>>, order |-> o1],
         [main |-> wide, base |-> wide, single |-> wide,
          folds |-> <<strong, wide, zero, strong, wide>>, order |-> o2],
         [main |-> strong, base |-> zero, single |-> strong,
          folds |-> <<strong, strong, EngineRaises, strong, strong>>, order |-> o2],
         [main |-> strong, base |-> EngineRaises, single |-> strong,
          folds |-> <<strong, strong, strong, strong, strong>>, order |-> o1],
         [main |-> strong, base |-> zero, single |-> EngineRaises,
          folds |-> <<strong, strong, strong, strong, strong>>, order |-> o1],
         [main |-> EngineRaises, base |-> zero, single |-> strong,
          folds |-> <<strong, strong, strong, strong, strong>>, order |-> o1]}

\* cleanup(): removes temp files and clears the caches
cleanup(self) == clear_caches(self)

\* the comparison on the signed model_effect
_is_feature_better_signed(metrics_a, metrics_b) ==
    LET better_measures ==
            (IF RLess(metrics_b.model_effect, metrics_a.model_effect) THEN 1 ELSE 0)
          + (IF RLess(metrics_b.effect_consistency, metrics_a.effect_consistency) THEN 1 ELSE 0)
          + (IF RLess(metrics_b.predictive_power, metrics_a.predictive_power) THEN 1 ELSE 0)
    IN  better_measures >= 2

\* _is_feature_better(metrics_a, metrics_b)
_is_feature_better(metrics_a, metrics_b) ==
    LET effect_a == RAbs(metrics_a.model_effect)
        effect_b == RAbs(metrics_b.model_effect)
        better_measures ==
            (IF RLess(effect_b, effect_a) THEN 1 ELSE 0)
          + (IF RLess(metrics_b.effect_consistency, metrics_a.effect_consistency) THEN 1 ELSE 0)
          + (IF RLess(metrics_b.predictive_power, metrics_a.predictive_power) THEN 1 ELSE 0)
    IN  better_measures >= 2

\* the loop without its else branch: a win only for a better first feature
WinCountsFirstOnly(remaining_features, feature_metrics) ==
    LET n == Len(remaining_features)
        pairs == {q \in (1..n) \X (1..n) : q[1] < q[2]}
    IN  [f \in ToSet(remaining_features) |->
            Cardinality({q \in pairs :
                /\ remaining_features[q[1]] = f
                /\ _is_feature_better(feature_metrics[remaining_features[q[1]]],
                                      feature_metrics[remaining_features[q[2]]])})]

\* win_counts after the loop over combinations(remaining_features, 2)
WinCounts(remaining_features, feature_metrics) ==
    LET n == Len(remaining_features)
        pairs == {q \in (1..n) \X (1..n) : q[1] < q[2]}
        Winner(q) == IF _is_feature_better(feature_metrics[remaining_features[q[1]]],
                                           feature_metrics[remaining_features[q[2]]])
                     THEN remaining_features[q[1]] ELSE remaining_features[q[2]]
    IN  [f \in ToSet(remaining_features) |-> Cardinality({q \in pairs : Winner(q) = f})]

\* max(d.items(), key=...)[0] for a dict whose keys were inserted in the
\* order of keys: the first key with the largest value
FirstMax(keys, value) ==
    LET ks == Dedupe(keys)
        i == CHOOSE i \in 1..Len(ks) :
                /\ \A j \in 1..Len(ks) : value[ks[j]] <= value[ks[i]]
                /\ \A j \in 1..(i - 1) : value[ks[j]] < value[ks[i]]
    IN  ks[i]

\* max(feature_metrics.items(), key=lambda x: x[1]['model_effect'])[0]
FirstMaxEffect(keys, feature_metrics) ==
    LET ks == Dedupe(keys)
        i == CHOOSE i \in 1..Len(ks) :
                /\ \A j \in 1..Len(ks) :
                      ~RLess(feature_metrics[ks[i]].model_effect, feature_metrics[ks[j]].model_effect)
                /\ \A j \in 1..(i - 1) :
                      RLess(feature_metrics[ks[j]].model_effect, feature_metrics[ks[i]].model_effect)
    IN  ks[i]

\* select_features up to the while loop: selected_features starts as the
\* control features, the normalization factors are reset
SelectStart ==
    /\ sel.pc = "idle"
    /\ \E dataset \in {DataFive, DataMixed, DataEmpty},
          all_features \in {<<"p", "n", "c">>, <<"p", "c">>, <<"n", "p">>,
                            <<"p", "p", "c">>, <<"c">>, <<>>} :
          sel' = [pc |-> "round", dataset |-> dataset, all_features |-> all_features,
                  main_features |-> MainOf(all_features),
                  remaining_features |-> <<>>, idx |-> 0,
                  feature_metrics |-> None, keys |-> <<>>, seen |-> {},
                  round_start |-> <<>>, best_feature |-> None, forced |-> FALSE,
                  kept |-> {}, returned |-> None]
    /\ model' = [model EXCEPT !.selected_features = control_features]
    /\ importance_calculator' = reset_normalization_factors(importance_calculator)
    /\ ret' = [op |-> "select_features", kind |-> "running"]
    /\ UNCHANGED <<split, fits, saved>>

\* the main features but the last one that are not selected
RemainingFeaturesButLast(main_features, selected_features) ==
    SelectSeq(SubSeq(main_features, 1, Len(main_features) - 1),
              LAMBDA f : ~InSeq(f, selected_features))

\* remaining_features: the main features that are not in selected_features
RemainingFeatures(main_features, selected_features) ==
    SelectSeq(main_features, LAMBDA f : ~InSeq(f, selected_features))

\* top of the while loop: remaining_features, and the break when none is left
\* (round_start: selected_features as the round begins)
SelectRound ==
    /\ sel.pc = "round"
    /\ LET remaining_features == RemainingFeatures(sel.main_features, model.selected_features)
       IN  IF remaining_features = <<>>
           THEN sel' = [sel EXCEPT !.pc = "finish", !.remaining_features = remaining_features,
                                   !.best_feature = None]
           ELSE sel' = [sel EXCEPT !.pc = "evaluate", !.remaining_features = remaining_features,
                                   !.idx = 1, !.feature_metrics = Some(<<>>), !.keys = <<>>,
                                   !.round_start = model.selected_features,
                                   !.best_feature = None]
    /\ UNCHANGED <<model, ret, split, fits, importance_calculator, saved>>

\* one iteration of the candidate loop: fit self with the candidate set,
\* then evaluate_feature.  An exception of fit leaves select_features
\* through its finally clause.
SelectEvaluate ==
    /\ sel.pc = "evaluate"
    /\ \E oracle \in Oracles :
          \E f \in {fit(model, sel.dataset,
                         Append(model.selected_features, sel.remaining_features[sel.idx]),
                         oracle.main)} :
          LET feature == sel.remaining_features[sel.idx]
              metrics == Val(sel.feature_metrics)
          IN  IF f.ret.kind = "raise"
              THEN /\ model' = cleanup(f.self)
                   /\ ret' = Raised("select_features", f.ret.exc, f.ret.stage)
                   /\ sel' = [sel EXCEPT !.pc = "raised", !.seen = {f.self.selected_features}]
                   /\ UNCHANGED importance_calculator
              ELSE \E e \in {evaluate_feature(importance_calculator, f.self, feature,
                              sel.dataset, sel.all_features, f.self.selected_features,
                              \* list(dataset.participants) after KFold's shuffle
                              [oracle EXCEPT !.order =
                                  SelectSeq(@, LAMBDA pid : pid \in sel.dataset.participants)])} :
                   /\ model' = e.self
                   /\ importance_calculator' = e.calc
                   /\ sel' = [sel EXCEPT
                         !.feature_metrics = Some([k \in DOMAIN metrics \cup {feature} |->
                                                      IF k = feature THEN e.metrics ELSE metrics[k]]),
                         !.keys = IF InSeq(feature, @) THEN @ ELSE Append(@, feature),
                         !.seen = {f.self.selected_features} \cup e.seen,
                         !.idx = @ + 1,
                         !.pc = IF sel.idx = Len(sel.remaining_features) THEN "pick" ELSE "evaluate"]
                   /\ UNCHANGED ret
    /\ UNCHANGED <<split, fits, saved>>

\* the round's comparison: win counts, best_feature, append
SelectPick ==
    /\ sel.pc = "pick"
    /\ LET win_counts == WinCounts(sel.remaining_features, Val(sel.feature_metrics))
           best_feature == FirstMax(sel.remaining_features, win_counts)
       IN  /\ model' = [model EXCEPT !.selected_features = Append(@, best_feature)]
           /\ sel' = [sel EXCEPT !.pc = "round", !.seen = {},
                                 !.best_feature = Some(best_feature),
                                 !.kept = ToSet(model.selected_features) \cup {best_feature}]
    /\ UNCHANGED <<ret, split, fits, importance_calculator, saved>>

\* after the loop: the forced selection when no main feature is selected,
\* the return, and the finally clause
SelectFinish ==
    /\ sel.pc = "finish"
    /\ IF \A i \in 1..Len(model.selected_features) :
             InSeq(model.selected_features[i], control_features)
       THEN IF sel.feature_metrics = None
            THEN \* feature_metrics was never assigned
                 /\ model' = cleanup(model)
                 /\ ret' = Raised("select_features", "UnboundLocalError", "force")
                 /\ sel' = [sel EXCEPT !.pc = "raised", !.forced = TRUE]
            ELSE \E engine \in {EngineReturns(<<1, 1, 0>>), EngineRaises} :
                 LET best_main == FirstMaxEffect(sel.keys, Val(sel.feature_metrics))
                     f == fit([model EXCEPT !.selected_features = Append(@, best_main)],
                              sel.dataset, Append(model.selected_features, best_main), engine)
                 IN  IF f.ret.kind = "raise"
                     THEN /\ model' = cleanup(f.self)
                          /\ ret' = Raised("select_features", f.ret.exc, f.ret.stage)
                          /\ sel' = [sel EXCEPT !.pc = "raised", !.forced = TRUE]
                     ELSE /\ model' = cleanup(f.self)
                          /\ ret' = Returned("select_features", f.self.selected_features)
                          /\ sel' = [sel EXCEPT !.pc = "done", !.forced = TRUE,
                                                !.returned = Some(f.self.selected_features)]
       ELSE /\ model' = cleanup(model)
            /\ ret' = Returned("select_features", model.selected_features)
            /\ sel' = [sel EXCEPT !.pc = "done", !.returned = Some(model.selected_features)]
    /\ UNCHANGED <<split, fits, importance_calculator, saved>>

NextSel == SelectStart \/ SelectRound \/ SelectEvaluate \/ SelectPick \/ SelectFinish

SpecSel == Init /\ [][NextSel]_vars

\* ------------------------------------------------- selection properties
Selecting == sel.pc # "idle"

\* every value selected_features has, or had during the last step
SelectedLists == {model.selected_features} \cup sel.seen

\* C7: during select_features and in the list it returns,
\* selected_features holds no feature twice.
C7_NeverDuplicates ==
    Selecting => \A s \in SelectedLists : \A i, j \in 1..Len(s) : i # j => s[i] # s[j]

\* C8: during select_features and in the list it returns, every control
\* feature is in selected_features and every other element of it is a
\* member of all_features.
C8_ControlsKeptOthersFromCandidates ==
    Selecting =>
        \A s \in SelectedLists :
            /\ \A i \in 1..Len(control_features) : InSeq(control_features[i], s)
            /\ \A i \in 1..Len(s) :
                  InSeq(s[i], control_features) \/ InSeq(s[i], sel.all_features)

C8_Witness ==
    /\ sel.pc = "done"
    /\ ret.kind = "value"
    /\ InSeq("c", ret.value) /\ InSeq("p", ret.value) /\ InSeq("n", ret.value)
    /\ sel.all_features = <<"n", "p">>

\* C9: with main candidates p and n where p beats n on all three importance
\* metrics and n measures as pure noise, the returned list contains p and
\* does not contain n.
C9_PredictiveSelectedNoiseNot ==
    (/\ sel.pc = "done"
     /\ sel.all_features = <<"p", "n", "c">>
     /\ LET m == Val(sel.feature_metrics)
        IN  /\ DOMAIN m = {"p", "n"}
            /\ RLess(m["n"].model_effect, m["p"].model_effect)
            /\ RLess(m["n"].effect_consistency, m["p"].effect_consistency)
            /\ RLess(m["n"].predictive_power, m["p"].predictive_power)
            /\ m["n"].model_effect = RZero
            /\ m["n"].effect_consistency = RZero
            /\ m["n"].predictive_power = RZero)
        => (InSeq("p", ret.value) /\ ~InSeq("n", ret.value))

\* ---------------------------------------------------- participant splits
\* three participants with interleaved rows
DataThree ==
    MkDataset("three", <<Pref(AB, CD, "P1", TRUE), Pref(CD, AB, "P2", FALSE),
                         Pref(CD, AB, "P1", FALSE), Pref(AB, CD, "P3", TRUE),
                         Pref(CD, AB, "P3", TRUE)>>)

\* datasets that are split
SplitDatasets ==
    {DataThree, DataFive, DataMixed, DataEmpty,
     \* one participant
     MkDataset("one", <<Pref(AB, CD, "P1", TRUE), Pref(CD, AB, "P1", FALSE)>>)}

\* test_fraction / test_ratio values <<numerator, denominator>>
Fractions == {<<1, 5>>, <<1, 2>>, <<2, 3>>, <<1, 1>>, <<0, 1>>, <<3, 2>>, <<-1, 2>>}

\* int(n * fraction): truncation toward zero
IntOfProduct(n, fraction) ==
    IF n * fraction[1] >= 0 THEN (n * fraction[1]) \div fraction[2]
    ELSE -((-(n * fraction[1])) \div fraction[2])

\* np.random.choice(population, n, replace=False): raises ValueError when n
\* is negative or larger than the population, or the population is empty
ChoiceRaises(population, n) == n < 0 \/ n > Cardinality(population) \/ population = {}

Choices(population, n) == {S \in SUBSET population : Cardinality(S) = n}

\* a split that sends the first rows to the test side, whoever they belong to
OnTestSideByRow(dataset, i, test_participants) == i <= Cardinality(test_participants)

\* split_by_participants: pref.participant_id in test_participants
OnTestSide(dataset, i, test_participants) ==
    dataset.preferences[i].participant_id \in test_participants

\* the dataset objects split_by_participants builds
SplitPart(dataset, prefs) ==
    [preferences |-> prefs,
     participants |-> {prefs[i].participant_id : i \in 1..Len(prefs)},
     file_path |-> dataset.file_path]

\* split_by_participants(test_fraction) for the drawn test_participants
split_by_participants(dataset, test_participants) ==
    LET rows == [i \in 1..Len(dataset.preferences) |-> i]
        test_rows == SelectSeq(rows, LAMBDA i : OnTestSide(dataset, i, test_participants))
        train_rows == SelectSeq(rows, LAMBDA i : ~OnTestSide(dataset, i, test_participants))
    IN  [train |-> SplitPart(dataset, [k \in 1..Len(train_rows) |-> dataset.preferences[train_rows[k]]]),
         test |-> SplitPart(dataset, [k \in 1..Len(test_rows) |-> dataset.preferences[test_rows[k]]])]

\* participant_to_indices: keys in order of first appearance
ParticipantKeys(dataset) ==
    Dedupe([i \in 1..Len(dataset.preferences) |-> dataset.preferences[i].participant_id])

\* the index lists built by extending per participant, in key order
RECURSIVE ExtendIndices(_, _, _, _)
ExtendIndices(dataset, keys, test_participants, test_side) ==
    IF keys = <<>> THEN <<>>
    ELSE (IF (Head(keys) \in test_participants) = test_side
          THEN IndicesWhere(dataset, {Head(keys)}, TRUE)
          ELSE <<>>) \o ExtendIndices(dataset, Tail(keys), test_participants, test_side)

\* the two subsets made from saved or new index lists
SubsetsOf(dataset, indices) ==
    LET train_data == _create_subset_dataset(dataset, indices.train_indices)
        test_data == _create_subset_dataset(dataset, indices.test_indices)
    IN  IF train_data.raised THEN [raised |-> TRUE, exc |-> train_data.exc, value |-> None]
        ELSE IF test_data.raised THEN [raised |-> TRUE, exc |-> test_data.exc, value |-> None]
        ELSE [raised |-> FALSE, exc |-> "none",
              value |-> Some([train |-> Val(train_data.value), test |-> Val(test_data.value)])]

\* load_or_create_split: does the existing split file serve this dataset?
LoadsExisting(dataset, file) ==
    /\ file # None
    /\ \A k \in 1..Len(Val(file).train_indices) : Val(file).train_indices[k] < Len(dataset.preferences)
    /\ \A k \in 1..Len(Val(file).test_indices) : Val(file).test_indices[k] < Len(dataset.preferences)
    /\ ~SubsetsOf(dataset, Val(file)).raised

\* dataset.split_by_participants(test_fraction)
SplitByParticipants ==
    /\ \E dataset \in SplitDatasets, test_fraction \in Fractions :
          LET n == IntOfProduct(Cardinality(dataset.participants), test_fraction)
              n_test == IF n > 1 THEN n ELSE 1
          IN  IF ChoiceRaises(dataset.participants, n_test)
              THEN ret' = Raised("split_by_participants", "ValueError", "choice")
              ELSE \E test_participants \in Choices(dataset.participants, n_test) :
                      ret' = Returned("split_by_participants",
                                      split_by_participants(dataset, test_participants))
    /\ split' = [split EXCEPT !.created = FALSE]
    /\ UNCHANGED <<model, sel, fits, importance_calculator, saved>>

\* load_or_create_split(dataset, config): loads the saved split when its
\* indices fit the dataset, else draws test participants, saves the index
\* lists and builds the two subsets
LoadOrCreateSplit ==
    /\ \E dataset \in SplitDatasets, test_ratio \in Fractions :
          IF LoadsExisting(dataset, split.file)
          THEN /\ ret' = Returned("load_or_create_split",
                                  Val(SubsetsOf(dataset, Val(split.file)).value))
               /\ split' = [split EXCEPT !.created = FALSE]
          ELSE LET all_participants == ParticipantKeys(dataset)
                   n_test == IntOfProduct(Len(all_participants), test_ratio)
               IN  IF ChoiceRaises(ToSet(all_participants), n_test)
                   THEN /\ ret' = Raised("load_or_create_split", "ValueError", "choice")
                        /\ split' = [split EXCEPT !.created = FALSE]
                   ELSE \E test_participants \in Choices(ToSet(all_participants), n_test) :
                        LET indices == [train_indices |-> ExtendIndices(dataset, all_participants,
                                                            test_participants, FALSE),
                                        test_indices |-> ExtendIndices(dataset, all_participants,
                                                            test_participants, TRUE)]
                            subsets == SubsetsOf(dataset, indices)
                        IN  /\ split' = [file |-> Some(indices), created |-> TRUE]
                            /\ ret' = IF subsets.raised
                                      THEN Raised("load_or_create_split", subsets.exc, "subset")
                                      ELSE Returned("load_or_create_split", Val(subsets.value))
    /\ UNCHANGED <<model, sel, fits, importance_calculator, saved>>

NextSplit == SplitByParticipants \/ LoadOrCreateSplit

SpecSplit == Init /\ [][NextSplit]_vars

\* ----------------------------------------------------- split properties
\* the last call returned a train/test pair made by a participant split
NewSplitReturned ==
    /\ ret.op \in {"split_by_participants", "load_or_create_split"}
    /\ ret.kind = "value"
    /\ ret.op = "load_or_create_split" => split.created

\* C10: the train and test datasets of a participant split have disjoint
\* participant sets, and no participant has preferences on both sides.
C10_SplitParticipantsDisjoint ==
    NewSplitReturned =>
        /\ ret.value.train.participants \cap ret.value.test.participants = {}
        /\ \A i \in 1..Len(ret.value.train.preferences),
              j \in 1..Len(ret.value.test.preferences) :
              ret.value.train.preferences[i].participant_id
                  # ret.value.test.preferences[j].participant_id

C10_Witness ==
    /\ NewSplitReturned
    /\ ret.op = "split_by_participants"
    /\ Len(ret.value.train.preferences) >= 2
    /\ Len(ret.value.test.preferences) >= 2

\* ------------------------------------------------------------ CSV loading
\* self.all_bigram_features: the bigrams that have a precomputed row
InFeatureTable(bigram) == bigram \in {AB, CD, GH}

\* one CSV row (the columns that decide the outcome)
Row(b1, b2, user_id, chosen_bigram) ==
    [bigram1 |-> b1, bigram2 |-> b2, user_id |-> user_id, chosen_bigram |-> chosen_bigram]

MaxRows == 2

\* CSV files: present or not, a required column missing or not, some rows:
\* two good ones, one with a bigram absent from the table, one with a
\* same-letter bigram, one whose bigram is too short
CsvFiles ==
    {[exists |-> e, missing |-> m, rows |-> r] :
        e \in BOOLEAN, m \in {"none", "user_id"},
        r \in UNION {[1..n -> {Row(AB, CD, "P1", AB), Row(CD, AB, "P2", AB),
                               Row(<<"x", "y">>, AB, "P1", <<"x", "y">>), Row(<<"z", "z">>, AB, "P2", AB),
                               Row(<<"q">>, AB, "P3", AB)}] : n \in 0..MaxRows}}

\* _create_preference(row): the table lookup uses the first two characters
_create_preference(row) ==
    IF Len(row.bigram1) < 2 \/ Len(row.bigram2) < 2
    THEN [raised |-> TRUE, exc |-> "IndexError", value |-> None]
    ELSE IF ~InFeatureTable(SubSeq(row.bigram1, 1, 2)) \/ ~InFeatureTable(SubSeq(row.bigram2, 1, 2))
    THEN [raised |-> TRUE, exc |-> "KeyError", value |-> None]
    ELSE [raised |-> FALSE, exc |-> "none",
          value |-> Some(Pref(row.bigram1, row.bigram2, row.user_id,
                              row.chosen_bigram = row.bigram1))]

\* the filter of _load_csv: rows whose bigrams have two different first letters
\* (a missing second letter compares as different)
NotSameLetter(bigram) == Len(bigram) < 2 \/ bigram[1] # bigram[2]

\* the row loop of _load_csv: a row whose _create_preference raises is skipped
RECURSIVE LoadRows(_, _)
LoadRows(rows, preferences) ==
    IF rows = <<>> THEN preferences
    ELSE LET pref == _create_preference(Head(rows))
         IN  LoadRows(Tail(rows),
                      IF pref.raised THEN preferences ELSE Append(preferences, Val(pref.value)))

\* PreferenceDataset(file_path): __init__ and _load_csv
_load_csv(file) ==
    IF ~file.exists
    THEN [raised |-> TRUE, exc |-> "FileNotFoundError", value |-> None]
    ELSE IF file.missing # "none"
    THEN [raised |-> TRUE, exc |-> "ValueError", value |-> None]
    ELSE LET data == SelectSeq(file.rows, LAMBDA row :
                        NotSameLetter(row.bigram1) /\ NotSameLetter(row.bigram2))
             preferences == LoadRows(data, <<>>)
         IN  IF preferences = <<>>
             THEN [raised |-> TRUE, exc |-> "ValueError", value |-> None]
             ELSE [raised |-> FALSE, exc |-> "none",
                   value |-> Some(MkDataset("csv", preferences))]

\* --------------------------------------------------- dataset operations
\* index lists handed to _create_subset_dataset: in range, partly or wholly
\* out of range, negative, empty
IndexLists ==
    {<<>>, <<0>>, <<1>>, <<0, 1>>, <<0, 2>>, <<1, 3, 4>>, <<2, 3, 4>>,
     <<0, 5>>, <<5>>, <<7, 9>>, <<-1>>, <<0, -1>>, <<-6>>}

\* the call before this one, when it was a _create_subset_dataset call
PreviousSubsetCall ==
    IF ret.op = "_create_subset_dataset"
    THEN Some([of |-> ret.of, indices |-> ret.indices, kind |-> ret.kind,
               value |-> IF ret.kind = "value" THEN Some(ret.value) ELSE None])
    ELSE None

\* dataset._create_subset_dataset(indices)
CreateSubset ==
    /\ \E dataset \in {DataThree, DataMixed, DataEmpty}, indices \in IndexLists :
       \E r \in {_create_subset_dataset(dataset, indices)} :
          ret' = (IF r.raised THEN Raised("_create_subset_dataset", r.exc, "body")
                  ELSE Returned("_create_subset_dataset", Val(r.value)))
                 @@ [of |-> dataset, indices |-> indices, prev |-> PreviousSubsetCall]
    /\ UNCHANGED <<model, sel, split, fits, importance_calculator, saved>>

\* PreferenceDataset(file_path, ...): loads the CSV file
LoadCsv ==
    /\ \E file \in CsvFiles :
       \E r \in {_load_csv(file)} :
          ret' = (IF r.raised THEN Raised("_load_csv", r.exc, "body")
                  ELSE Returned("_load_csv", Val(r.value))) @@ [file |-> file]
    /\ UNCHANGED <<model, sel, split, fits, importance_calculator, saved>>

MaxSplits == 3

\* the orders list(dataset.participants) can have after the shuffle
ParticipantOrders(dataset) ==
    {order \in [1..Cardinality(dataset.participants) -> dataset.participants] :
        \A i, j \in DOMAIN order : order[i] = order[j] => i = j}

GetCvSplits ==
    /\ \E dataset \in {DataThree, DataFive, DataEmpty}, k \in 1..MaxSplits :
       \E order \in ParticipantOrders(dataset) :
       \E r \in {_get_cv_splits(dataset, k, order)} :
          ret' = (IF r.raised THEN Raised("_get_cv_splits", "ValueError", "KFold")
                  ELSE Returned("_get_cv_splits", r.splits))
                 @@ [of |-> dataset, n_splits |-> k]
    /\ UNCHANGED <<model, sel, split, fits, importance_calculator, saved>>

NextData == CreateSubset \/ LoadCsv \/ GetCvSplits

SpecData == Init /\ [][NextData]_vars

\* ------------------------------------------------- dataset properties
SubsetCalled == ret.op = "_create_subset_dataset"

\* every index is a position of the dataset
AllInRange(dataset, indices) ==
    \A k \in 1..Len(indices) : 0 <= indices[k] /\ indices[k] < Len(dataset.preferences)

\* C11: _create_subset_dataset returns a dataset exactly when indices is
\* non-empty and every index is in range 0..len-1; otherwise it raises
\* ValueError.
C11_SubsetRejectsBadIndices ==
    SubsetCalled =>
        LET good == ret.indices # <<>> /\ AllInRange(ret.of, ret.indices)
        IN  /\ (ret.kind = "value") <=> good
            /\ ~good => (ret.kind = "raise" /\ ret.exc = "ValueError")

\* the two last calls returned subsets of one dataset whose index lists
\* partition its positions
ComplementSubsets ==
    /\ SubsetCalled /\ ret.kind = "value"
    /\ ret.prev # None
    /\ Val(ret.prev).kind = "value"
    /\ Val(ret.prev).of = ret.of
    /\ ToSet(ret.indices) \cap ToSet(Val(ret.prev).indices) = {}
    /\ ToSet(ret.indices) \cup ToSet(Val(ret.prev).indices) = 0..(Len(ret.of.preferences) - 1)

\* the participant ids at the in-range positions named by indices
ParticipantsAt(dataset, indices) ==
    {dataset.preferences[i + 1].participant_id :
        i \in {j \in ToSet(indices) : 0 <= j /\ j < Len(dataset.preferences)}}

\* no participant has preferences at positions of both index lists
SplitsNoParticipant(dataset, indices1, indices2) ==
    ParticipantsAt(dataset, indices1) \cap ParticipantsAt(dataset, indices2) = {}

\* the participant set of a returned subset is that of its preferences
SubsetParticipantsExact ==
    (SubsetCalled /\ ret.kind = "value" /\ AllInRange(ret.of, ret.indices)) =>
        /\ ret.value.participants = ParticipantsAt(ret.of, ret.indices)
        /\ ret.value.participants =
              {ret.value.preferences[k].participant_id : k \in 1..Len(ret.value.preferences)}

C13_LoadSkipsFailingRows ==
    (ret.op = "_load_csv" /\ ret.file.exists /\ ret.file.missing = "none") =>
        LET \* a row that survives the filter and whose processing succeeds
            RowSucceeds(row) ==
                /\ Len(row.bigram1) >= 2 /\ Len(row.bigram2) >= 2
                /\ row.bigram1[1] # row.bigram1[2] /\ row.bigram2[1] # row.bigram2[2]
                /\ InFeatureTable(SubSeq(row.bigram1, 1, 2))
                /\ InFeatureTable(SubSeq(row.bigram2, 1, 2))
            good == SelectSeq(ret.file.rows, RowSucceeds)
        IN  IF good = <<>>
            THEN ret.kind = "raise" /\ ret.exc = "DataFormatError"
            ELSE /\ ret.kind = "value"
                 /\ Len(ret.value.preferences) = Len(good)
                 /\ \A k \in 1..Len(good) :
                       /\ ret.value.preferences[k].bigram1 = good[k].bigram1
                       /\ ret.value.preferences[k].bigram2 = good[k].bigram2
                       /\ ret.value.preferences[k].participant_id = good[k].user_id

\* ------------------------------------------------------------ save and load
\* save(path): the dictionary that is pickled (save_from: the instance it was
\* taken from, kept for comparison only)
save(self) ==
    [feature_names |-> self.feature_names,
     selected_features |-> self.selected_features,
     feature_weights |-> self.feature_weights,
     fit_result |-> self.fit_result,
     save_from |-> self]

\* the attributes load() sets on the fresh instance
LoadRestored(model0, save_dict) ==
    [model0 EXCEPT !.feature_names = save_dict.feature_names,
                   !.selected_features = save_dict.selected_features,
                   !.feature_weights = save_dict.feature_weights,
                   !.fit_result = save_dict.fit_result]

\* PreferenceModel.load(path): cls(config) and the restored attributes
load(save_dict) == LoadRestored(NewModel, save_dict)

Save ==
    /\ saved' = Some(save(model))
    /\ ret' = Returned("save", None)
    /\ UNCHANGED <<model, sel, split, fits, importance_calculator>>

\* load(path) makes a new instance; the model variable follows it from then on
Load ==
    /\ IF saved = None
       THEN /\ ret' = Raised("load", "FileNotFoundError", "open")
            /\ UNCHANGED model
       ELSE /\ model' = load(Val(saved))
            /\ ret' = Returned("load", None) @@ [m |-> Val(saved).save_from]
    /\ UNCHANGED <<sel, split, fits, importance_calculator, saved>>

MaxSaveFits == 1

\* fit() on the instance, before it is saved or after it was loaded
FitSave ==
    /\ fits < MaxSaveFits
    /\ Fit

NextSave == FitSave \/ PredictPreference \/ Save \/ Load

SpecSave == Init /\ [][NextSave]_vars

\* C14: right after load(path) of a file written by m.save(path), the loaded
\* model's predict_preference gives, for every pair, the same probability and
\* uncertainty as m's.
C14_SaveLoadRoundTrip ==
    (ret.op = "load" /\ ret.kind = "value") =>
        LET \* the outcome of predict_preference(a, b) on an instance
            PredictionOf(self, q) ==
                LET r == predict_preference(self, q[1], q[2]).ret
                IN  IF r.kind = "value"
                    THEN <<"value", r.value.probability, r.value.uncertainty>>
                    ELSE <<"raise", r.exc>>
        IN  \A q \in QueryPairs : PredictionOf(model, q) = PredictionOf(ret.m, q)

\* C15: in every fold returned by _get_cv_splits the train and validation
\* index sets are disjoint and together hold every preference index, no
\* participant has rows on both sides, and each participant is on the
\* validation side of exactly one fold.
C15_CvSplitsPartitionByParticipant ==
    (ret.op = "_get_cv_splits" /\ ret.kind = "value") =>
        LET dataset == ret.of
            splits == ret.value
        IN  /\ Len(splits) = ret.n_splits
            /\ \A i \in DOMAIN splits :
                  /\ ToSet(splits[i].train) \cap ToSet(splits[i].val) = {}
                  /\ ToSet(splits[i].train) \cup ToSet(splits[i].val)
                        = {k - 1 : k \in 1..Len(dataset.preferences)}
                  /\ ParticipantsAt(dataset, splits[i].train)
                        \cap ParticipantsAt(dataset, splits[i].val) = {}
            /\ \A pid \in dataset.participants :
                  Cardinality({i \in DOMAIN splits :
                                  pid \in ParticipantsAt(dataset, splits[i].val)}) = 1

\* folds of unequal size were returned for a dataset where one participant
\* has several rows
C15_Witness ==
    /\ ret.op = "_get_cv_splits" /\ ret.kind = "value"
    /\ ret.of = DataThree /\ ret.n_splits = 2
    /\ \E i, j \in DOMAIN ret.value :
          /\ Len(ret.value[i].val) > Len(ret.value[j].val)
          /\ ret.value[j].val # <<>> /\ ret.value[j].train # <<>>

\* C16: on a fitted model, in every state the operations can lead to,
\* predict_preference(a, b).probability + predict_preference(b, a).probability
\* is 1 (1000 thousandths) for every pair.
C16_MirrorProbabilitiesSumToOne ==
    Fitted =>
        LET \* the probabilities of predict_preference(a, b) and of the call
            \* predict_preference(b, a) that follows it, when both return
            MirrorProbabilities(self, q) ==
                LET r1 == predict_preference(self, q[1], q[2])
                    r2 == predict_preference(r1.self, q[2], q[1])
                IN  IF r1.ret.kind = "value" /\ r2.ret.kind = "value"
                    THEN Some(<<r1.ret.value.probability, r2.ret.value.probability>>)
                    ELSE None
        IN  \A q \in QueryPairs :
                \A p \in {MirrorProbabilities(model, q)} :
                    p # None => Val(p)[1] + Val(p)[2] = 1000

\* a round of select_features has just ended
RoundEnded == sel.pc = "round" /\ sel.best_feature # None

\* C17: at the end of each round of select_features, selected_features is what
\* it was at the start of the round plus exactly one feature, and that feature
\* is a remaining candidate whose win count in the round is maximal.
C17_OneBestFeaturePerRound ==
    RoundEnded =>
        LET win_counts == WinCounts(sel.remaining_features, Val(sel.feature_metrics))
            best_feature == Val(sel.best_feature)
        IN  /\ ToSet(sel.round_start) \subseteq ToSet(model.selected_features)
            /\ ToSet(model.selected_features) \ ToSet(sel.round_start) = {best_feature}
            /\ InSeq(best_feature, sel.remaining_features)
            /\ \A f \in ToSet(sel.remaining_features) : win_counts[f] <= win_counts[best_feature]

\* select_features runs to its end once called: each step of its body is
\* taken when it is enabled
SpecSelFair == Init /\ [][NextSel]_vars /\ WF_vars(NextSel)

\* select_features has left its body, by return or by exception
SelectEnded == sel.pc \in {"done", "raised"}

\* every main feature of all_features is in the returned list
ReturnsEveryMainFeature ==
    (sel.pc = "done" /\ ret.kind = "value") =>
        \A f \in ToSet(sel.main_features) : InSeq(f, ret.value)

\* C18: a call of select_features ends for every candidate list (rounds run
\* until no main feature is left unselected), and when it returns normally
\* every main feature of all_features is in the returned list.
C18_SelectionTerminatesWithEveryMainFeature ==
    /\ Selecting ~> SelectEnded
    /\ []ReturnsEveryMainFeature

\* a selection over two main candidates returned after its rounds
C18_Witness ==
    /\ sel.pc = "done" /\ ret.kind = "value" /\ ~sel.forced
    /\ sel.main_features = <<"p", "n">>
    /\ InSeq("p", ret.value) /\ InSeq("n", ret.value)

\* C19: when the rounds end with no main feature in selected_features,
\* select_features force-selects a main feature and returns normally a list
\* with at least one main feature.
C19_ForcedSelectionReturnsMainFeature ==
    (SelectEnded /\ sel.forced) =>
        /\ ret.kind = "value"
        /\ MainOf(ret.value) # <<>>

\* ------------------------------------------------- comparison of two features
\* metric values: effects of either sign, consistencies and powers in 0..1
MetricValues ==
    [model_effect : {<<-2, 1>>, <<-1, 1>>, <<0, 1>>, <<1, 1>>},
     effect_consistency : {<<0, 1>>, <<1, 2>>, <<1, 1>>},
     predictive_power : {<<0, 1>>, <<1, 2>>, <<1, 1>>}]

IsFeatureBetter ==
    /\ \E metrics_a \in MetricValues, metrics_b \in MetricValues :
          ret' = Returned("_is_feature_better", _is_feature_better(metrics_a, metrics_b))
                 @@ [metrics_a |-> metrics_a, metrics_b |-> metrics_b]
    /\ UNCHANGED <<model, sel, split, fits, importance_calculator, saved>>

SpecBetter == Init /\ [][IsFeatureBetter]_vars

\* C20: _is_feature_better(A, B) is true exactly when A is strictly greater
\* than B on at least two of absolute model_effect, effect_consistency and
\* predictive_power.
C20_BetterOnTwoOfThree ==
    ret.op = "_is_feature_better" =>
        LET \* the metrics on which A is strictly greater than B, the model
            \* effect taken in absolute value
            StrictlyGreaterMetrics(metrics_a, metrics_b) ==
                {m \in {"model_effect", "effect_consistency", "predictive_power"} :
                    LET a == IF m = "model_effect" THEN RAbs(metrics_a[m]) ELSE metrics_a[m]
                        b == IF m = "model_effect" THEN RAbs(metrics_b[m]) ELSE metrics_b[m]
                    IN  a[1] * b[2] > b[1] * a[2]}
        IN  ret.value <=> Cardinality(StrictlyGreaterMetrics(ret.metrics_a, ret.metrics_b)) >= 2

\* A wins through the absolute value of a negative model effect
C20_Witness ==
    /\ ret.op = "_is_feature_better" /\ ret.value
    /\ ret.metrics_a.model_effect = <<-2, 1>> /\ ret.metrics_b.model_effect = <<1, 1>>
    /\ ret.metrics_a.effect_consistency = <<1, 1>> /\ ret.metrics_b.effect_consistency = <<1, 2>>
    /\ ret.metrics_a.predictive_power = <<0, 1>> /\ ret.metrics_b.predictive_power = <<1, 2>>

\* ---------------------------------------------------------- cross-validation
\* the loop of cross_validate over the folds i..Len(splits); each fold clears
\* the caches on entry and in its finally clause.  acc: [metrics, fits].
RECURSIVE CrossValidateFolds(_, _, _, _, _)
CrossValidateFolds(self, dataset, splits, i, acc) ==
    IF i > Len(splits)
    THEN [self |-> self, raised |-> FALSE, exc |-> "none", metrics |-> acc.metrics,
          fits |-> acc.fits]
    ELSE LET s1 == clear_caches(self)
             train_data == _create_subset_dataset(dataset, splits[i].train)
             val_data == _create_subset_dataset(dataset, splits[i].val)
         IN  IF train_data.raised \/ val_data.raised
             THEN [self |-> clear_caches(s1), raised |-> TRUE,
                   exc |-> IF train_data.raised THEN train_data.exc ELSE val_data.exc,
                   metrics |-> acc.metrics, fits |-> acc.fits]
             ELSE IF Len(Val(train_data.value).preferences) = 0
                     \/ Len(Val(val_data.value).preferences) = 0
             THEN CrossValidateFolds(clear_caches(s1), dataset, splits, i + 1, acc)
             ELSE \* self.fit_result(train_data): fit_result is an attribute (None
                  \* or the posterior), never a callable
                  LET f == [self |-> s1, ret |-> Raised("fit_result", "TypeError", "call")]
                  IN  [self |-> clear_caches(f.self), raised |-> TRUE, exc |-> f.ret.exc,
                       metrics |-> acc.metrics, fits |-> acc.fits]

\* cross_validate(dataset, n_splits); order is list(dataset.participants)
\* after KFold's shuffle
cross_validate(self, dataset, k, order) ==
    LET cv == _get_cv_splits(dataset, k, order)
    IN  IF cv.raised
        THEN [self |-> self, ret |-> Raised("cross_validate", "ValueError", "KFold")]
        ELSE LET r == The({CrossValidateFolds(self, dataset, cv.splits, 1,
                               [metrics |-> [accuracy |-> <<>>, auc |-> <<>>], fits |-> 0])})
             IN  IF r.raised
                 THEN [self |-> r.self, ret |-> Raised("cross_validate", r.exc, "fold")]
                 ELSE [self |-> r.self,
                       ret |-> Returned("cross_validate", [metrics |-> r.metrics])
                               @@ [fits |-> r.fits]]

CrossValidate ==
    /\ \E dataset \in {DataThree, DataMixed, DataEmpty}, k \in 1..MaxSplits :
       \E order \in ParticipantOrders(dataset) :
       \E r \in {cross_validate(model, dataset, k, order)} :
          /\ model' = r.self
          /\ ret' = r.ret @@ [of |-> dataset, n_splits |-> k]
    /\ UNCHANGED <<sel, split, fits, importance_calculator, saved>>

NextCv == FitSave \/ PredictPreference \/ CrossValidate

SpecCv == Init /\ [][NextCv]_vars

\* C21: cross_validate(dataset, n_splits) on a dataset with at least n_splits
\* participants returns normally, after one refit per fold, with as many
\* accuracy entries as AUC entries and at most one of each per fold, and
\* leaves the caches cleared.
C21_CrossValidateReturnsFoldMetrics ==
    (/\ ret.op = "cross_validate"
     /\ ret.n_splits >= 2
     /\ Cardinality(ret.of.participants) >= ret.n_splits) =>
        /\ ret.kind = "value"
        /\ ret.fits = ret.n_splits
        /\ Len(ret.value.metrics.accuracy) = Len(ret.value.metrics.auc)
        /\ Len(ret.value.metrics.accuracy) <= ret.n_splits
        /\ model.prediction_cache = CacheClear(model.prediction_cache)

\* ------------------------------------------- standardization in prediction
\* C22: after a fit, for every training preference the feature differences
\* predict_preference uses for its bigram pair equal the differences of the
\* preference's rows in the design matrices X1 - X2 and C1 - C2 given to the
\* inference engine.
C22_PredictionUsesTrainingStandardization ==
    (ret.op = "fit" /\ ret.kind = "value") =>
        LET dataset == Val(model.dataset)
            \* the package prepare_data built in the fit that has just returned
            data == prepare_data(model, dataset, Val(model.feature_names)).data
            \* the training preferences for which predict_preference computes
            \* differences
            rows == {i \in 1..Len(dataset.preferences) :
                        \A f \in ToSet(model.selected_features) :
                            /\ f \in DOMAIN Features1(dataset.preferences[i])
                            /\ f \in DOMAIN Features2(dataset.preferences[i])}
            \* the standardized values s1, s2 of one column differ by exactly d
            StandardizedDiffIs(s1, s2, d) ==
                LET num == s1.centered - s2.centered
                IN  /\ (num > 0) = (d > 0)
                    /\ (num < 0) = (d < 0)
                    /\ num * num * s1.var[2] = d * d * s1.count * s1.count * s1.var[1]
        IN  \A i \in rows :
            LET pref == dataset.preferences[i]
                main_features == MainOf(model.selected_features)
                main_diffs == FeatureDiffs(main_features, Features1(pref), Features2(pref))
                control_diffs == FeatureDiffs(control_features, Features1(pref), Features2(pref))
            IN  /\ \A j \in 1..Len(main_features) :
                      StandardizedDiffIs(data.X1[i][j], data.X2[i][j], main_diffs[j])
                /\ \A j \in 1..Len(control_features) :
                      StandardizedDiffIs(data.C1[i][j], data.C2[i][j], control_diffs[j])

\* ------------------------------------------------ feature importance calls
\* what the engine does in the fits of one evaluate_feature call: every
\* main weight 1, or every main weight 1/2 and every control weight 2
ImportanceOracles ==
    LET strong == EngineReturns(<<1, 1, 0>>)
        half == EngineReturns(<<1, 0, 2>>)
        o1 == <<"P1", "P2", "P3", "P4", "P5">>
    IN  {[main |-> strong, base |-> strong, single |-> strong,
          folds |-> <<strong, strong, strong, strong, strong>>, order |-> o1],
         [main |-> half, base |-> strong, single |-> half,
          folds |-> <<half, strong, half, strong, half>>, order |-> o1]}

MaxImportanceCalls == 3

\* the model is fitted before its features are evaluated (fits counts the
\* calls that refit the instance)
FitForImportance ==
    /\ fits = 0
    /\ \E f \in {fit(model, DataFive, <<"p", "n", "c">>, EngineReturns(<<1, 1, 0>>))} :
          /\ model' = f.self
          /\ ret' = f.ret
    /\ fits' = fits + 1
    /\ UNCHANGED <<sel, split, importance_calculator, saved>>

ResetNormalizationFactors ==
    /\ importance_calculator' = reset_normalization_factors(importance_calculator)
    /\ ret' = Returned("reset_normalization_factors", None)
    /\ UNCHANGED <<model, sel, split, fits, saved>>

EvaluateFeature ==
    /\ fits >= 1
    /\ fits < MaxImportanceCalls
    /\ \E feature \in {"p", "n", "c"}, oracle \in ImportanceOracles,
          current_selected_features \in {<<"c">>, <<"c", "n">>} :
       \E e \in {evaluate_feature(importance_calculator, model, feature, DataFive,
                                  <<"p", "n", "c">>, current_selected_features, oracle)} :
          /\ model' = e.self
          /\ importance_calculator' = e.calc
          /\ ret' = Returned("evaluate_feature", e.metrics)
                    @@ [feature |-> feature, raw |-> e.raw, test_features |-> e.test_features,
                        current_selected_features |-> current_selected_features,
                        selected_before |-> model.selected_features]
    /\ fits' = fits + 1
    /\ UNCHANGED <<sel, split, saved>>

NextImportance == FitForImportance \/ ResetNormalizationFactors \/ EvaluateFeature

SpecImportance == Init /\ [][NextImportance]_vars

\* C23: the model_effect and effect_consistency evaluate_feature reports are
\* the raw values divided by the largest raw value seen among features of the
\* same category since the last reset_normalization_factors.
C23_NormalizedByCategoryMaximum ==
    (ret.op = "evaluate_feature" /\ ret.raw # None) =>
        LET category == IF InSeq(ret.feature, control_features) THEN "control" ELSE "main"
            \* raw / maximum, 0 when the maximum is 0
            Normalized(raw, maximum) ==
                IF RLess(RZero, maximum) THEN RDiv(raw, maximum) ELSE RZero
        IN  /\ ret.value.model_effect
                  = Normalized(Val(ret.raw).effect, importance_calculator._max_effect[category])
            /\ ret.value.effect_consistency
                  = Normalized(Val(ret.raw).consistency,
                               importance_calculator._max_consistency[category])

\* C24: the model whose weight of f gives the model_effect of candidate f is
\* fitted on current_selected_features plus the control features plus f.
C24_EffectFromModelWithCurrentSelection ==
    (ret.op = "evaluate_feature" /\ ret.raw # None) =>
        /\ ToSet(ret.test_features)
              = ToSet(ret.current_selected_features) \cup ToSet(control_features) \cup {ret.feature}
        /\ Val(ret.raw).effect = Ratio(Abs(ret.value.weight[1]), 2)

\* ------------------------------------------------- the model after selection
MaxPostCalls == 1

\* select_features has returned normally (fits counts the calls made since)
SelectionReturned == sel.pc = "done" /\ sel.returned # None

\* evaluate_feature for a selectable feature, with the returned list as
\* current_selected_features (main.py) or with the control features only
PostEvaluateFeature ==
    /\ SelectionReturned
    /\ fits < MaxPostCalls
    /\ \E feature \in ToSet(sel.main_features), oracle \in ImportanceOracles,
          current_selected_features \in {Val(sel.returned), control_features} :
       \E e \in {evaluate_feature(importance_calculator, model, feature, sel.dataset,
                                  sel.all_features, current_selected_features, oracle)} :
          /\ model' = e.self
          /\ importance_calculator' = e.calc
          /\ ret' = Returned("evaluate_feature", e.metrics)
    /\ fits' = fits + 1
    /\ UNCHANGED <<sel, split, saved>>

PostPredictPreference ==
    /\ SelectionReturned
    /\ fits < MaxPostCalls
    /\ \E q \in {<<AB, CD>>, <<GH, AB>>} :
       \E r \in {predict_preference(model, q[1], q[2])} :
          /\ model' = r.self
          /\ ret' = r.ret
    /\ fits' = fits + 1
    /\ UNCHANGED <<sel, split, importance_calculator, saved>>

PostEvaluate ==
    /\ SelectionReturned
    /\ fits < MaxPostCalls
    /\ \E r \in {evaluate(model, sel.dataset)} :
          /\ model' = r.self
          /\ ret' = r.ret
    /\ fits' = fits + 1
    /\ UNCHANGED <<sel, split, importance_calculator, saved>>

NextFrozen == NextSel \/ PostEvaluateFeature \/ PostPredictPreference \/ PostEvaluate

SpecFrozen == Init /\ [][NextFrozen]_vars

\* C25: once select_features has returned, evaluate_feature,
\* predict_preference and evaluate leave model.selected_features as it was
\* returned; during selection every feature that was in selected_features at
\* the end of a round is in it at every later point.
C25_SelectedFeaturesFrozen ==
    /\ SelectionReturned => model.selected_features = Val(sel.returned)
    /\ (sel.pc \in {"round", "evaluate", "pick", "finish"}) =>
           \A s \in SelectedLists : sel.kept \subseteq ToSet(s)

\* ------------------------------------------------------ the data package
MaxPrepareRows == 2

\* prepare_data(dataset, features) for datasets of up to MaxPrepareRows
\* preferences; features = <<>> stands for features=None
PrepareData ==
    /\ \E dataset \in
            {MkDataset("prepare", prefs) :
                prefs \in UNION {[1..n ->
                    {Pref(AB, CD, "P1", TRUE), Pref(CD, AB, "P2", FALSE),
                     Pref(GH, AB, "P4", TRUE), Pref(AB, CD, "P4", FALSE)}] :
                    n \in 0..MaxPrepareRows}},
          features \in {<<>>, <<"p", "c">>, <<"c", "p", "n">>, <<"c">>, <<"n">>,
                        <<"n", "n", "c">>} :
       \E prep \in {prepare_data(model, dataset,
                        IF features = <<>> THEN dataset.feature_names ELSE features)} :
          /\ model' = prep.self
          /\ ret' = (IF prep.raised THEN Raised("prepare_data", "ValueError", "body")
                     ELSE Returned("prepare_data", prep.data)) @@ [of |-> dataset]
    /\ UNCHANGED <<sel, split, fits, importance_calculator, saved>>

SpecPrepare == Init /\ [][PrepareData]_vars

check_transitivity(self) ==
    LET \* pref_graph: the (better, worse) pairs of the dataset's preferences
        pref_graph ==
            {IF self.preferences[i].preferred
                THEN <<self.preferences[i].bigram1, self.preferences[i].bigram2>>
                ELSE <<self.preferences[i].bigram2, self.preferences[i].bigram1>> :
             i \in 1..Len(self.preferences)}
        \* the (a, b, c) the three nested loops visit
        visited == {<<e[1], e[2], f[2]>> :
                       <<e, f>> \in {p \in pref_graph \X pref_graph : p[2][1] = p[1][2]}}
        triples == Cardinality(visited)
        violations == Cardinality({t \in visited :
                          /\ <<t[1], t[3]>> \notin pref_graph
                          /\ <<t[3], t[1]>> \in pref_graph})
    IN  [self |-> self,
         value |-> [violations |-> violations,
                    total_triples |-> triples,
                    violation_rate |-> IF triples > 0 THEN Ratio(violations, triples)
                                       ELSE RZero]]

MaxTransitivityRows == 4

\* a dataset of up to MaxTransitivityRows preferences over three bigrams
InitTransitivity ==
    /\ model = NewModel
    /\ ret \in {[op |-> "init", dataset |-> MkDataset("transitivity", prefs)] :
                 prefs \in UNION {[1..n ->
                     {Pref(AB, CD, "P1", TRUE), Pref(GH, CD, "P1", FALSE),
                      Pref(GH, AB, "P2", TRUE), Pref(AB, GH, "P2", TRUE),
                      Pref(AB, CD, "P3", FALSE), Pref(CD, GH, "P3", TRUE)}] :
                     n \in 0..MaxTransitivityRows}}
    /\ sel = NoSel
    /\ split = NoSplit
    /\ fits = 0
    /\ importance_calculator = NewCalculator
    /\ saved = None

CheckTransitivity ==
    /\ \E result \in {check_transitivity(ret.dataset)} :
          ret' = Returned("check_transitivity", result.value)
                     @@ [dataset |-> result.self, of |-> ret.dataset]
    /\ UNCHANGED <<model, sel, split, fits, importance_calculator, saved>>

SpecTransitivity == InitTransitivity /\ [][CheckTransitivity]_vars

\* C27: check_transitivity returns total_triples = the number of chains
\* (a, b, c) with a preferred over b and b over c, violations = the number of
\* those chains in which c is preferred over a, violation_rate =
\* violations / total_triples (0 when there is no chain), and leaves the
\* dataset as it was.
C27_TransitivityCounts ==
    ret.op = "check_transitivity" =>
        LET preferences == ret.of.preferences
            \* a is preferred over b in some preference of the dataset
            PreferredOver(a, b) ==
                \E i \in 1..Len(preferences) :
                    \/ /\ preferences[i].preferred
                       /\ preferences[i].bigram1 = a /\ preferences[i].bigram2 = b
                    \/ /\ ~preferences[i].preferred
                       /\ preferences[i].bigram2 = a /\ preferences[i].bigram1 = b
            chains == {t \in {AB, CD, GH} \X {AB, CD, GH} \X {AB, CD, GH} :
                          PreferredOver(t[1], t[2]) /\ PreferredOver(t[2], t[3])}
            violating == {t \in chains : PreferredOver(t[3], t[1])}
        IN  /\ ret.value.total_triples = Cardinality(chains)
            /\ ret.value.violations = Cardinality(violating)
            /\ ret.value.violation_rate =
                  (IF chains = {} THEN RZero
                   ELSE Ratio(Cardinality(violating), Cardinality(chains)))
            /\ ret.dataset = ret.of

\* ------------------------------------------------------------ _add_to_cache
\* A dict is the sequence of its <<key, value>> entries in insertion order.
CacheKeys(cache) == {cache[i][1] : i \in 1..Len(cache)}

\* cache[key] = value: an existing key keeps its position
CacheStore(cache, key, value) ==
    IF key \in CacheKeys(cache)
        THEN [i \in 1..Len(cache) |-> IF cache[i][1] = key THEN <<key, value>> ELSE cache[i]]
        ELSE Append(cache, <<key, value>>)

_add_to_cache_unbounded(cache, key, value) == CacheStore(cache, key, value)

\* PreferenceModel._add_to_cache(self, cache, key, value)
_add_to_cache(cache, key, value) ==
    IF Len(cache) > 1000
        THEN \* for k in list(cache.keys())[:remove_count]: del cache[k]
             LET remove_count == Len(cache) \div 10
             IN  CacheStore(SubSeq(cache, remove_count + 1, Len(cache)), key, value)
        ELSE CacheStore(cache, key, value)

\* the number of distinct cache keys the insertions use
MaxCacheKeys == 1100

InitCache ==
    /\ model = [_feature_data_cache |-> <<>>] @@ NewModel
    /\ ret = [op |-> "init"]
    /\ sel = NoSel
    /\ split = NoSplit
    /\ fits = 0
    /\ importance_calculator = NewCalculator
    /\ saved = None

\* self._add_to_cache(self._feature_data_cache, cache_key, result) for the
\* key of the oldest or the newest entry, or a key never used before (fits
\* counts the keys used so far)
AddToCache ==
    /\ \E key \in (IF model._feature_data_cache = <<>> THEN {}
                   ELSE {model._feature_data_cache[1][1],
                         model._feature_data_cache[Len(model._feature_data_cache)][1]})
                      \cup {k \in {fits + 1} : k <= MaxCacheKeys} :
       \E cache \in {_add_to_cache(model._feature_data_cache, key, "result")} :
          /\ model' = [model EXCEPT !._feature_data_cache = cache]
          /\ fits' = IF key > fits THEN key ELSE fits
          /\ ret' = Returned("_add_to_cache", None)
                        @@ [key |-> key, before |-> model._feature_data_cache]
    /\ UNCHANGED <<sel, split, importance_calculator, saved>>

SpecCache == InitCache /\ [][AddToCache]_vars

\* C28: the cache never holds more than 1001 entries; an insertion that
\* found more than 1000 entries evicted the oldest-inserted tenth of them
\* before storing the new entry; the key just inserted is in the cache.
C28_CacheBounded ==
    /\ Len(model._feature_data_cache) <= 1001
    /\ ret.op = "_add_to_cache" =>
          LET cache == model._feature_data_cache
              before == ret.before
              oldest_tenth == {before[i][1] : i \in 1..(Len(before) \div 10)}
          IN  /\ ret.key \in CacheKeys(cache)
              /\ Len(before) > 1000 =>
                    CacheKeys(cache) = (CacheKeys(before) \ oldest_tenth) \cup {ret.key}
              /\ Len(before) <= 1000 =>
                    CacheKeys(cache) = CacheKeys(before) \cup {ret.key}

\* an insertion found 1001 entries and left 902
C28_Witness ==
    /\ ret.op = "_add_to_cache"
    /\ Len(ret.before) = 1001
    /\ Len(model._feature_data_cache) = 902

\* ------------------------------------------------------ the round's wins
\* C29: in a selection round with k remaining candidates the win counts sum
\* to k(k-1)/2, one win for each unordered pair of candidates, and
\* _is_feature_better does not hold in both directions for any two of the
\* round's candidates.
C29_OneWinPerPair ==
    RoundEnded =>
        LET remaining_features == sel.remaining_features
            feature_metrics == Val(sel.feature_metrics)
            k == Len(remaining_features)
            win_counts == WinCounts(remaining_features, feature_metrics)
            keys == Dedupe(remaining_features)
        IN  /\ 2 * SumSeq([i \in 1..Len(keys) |-> win_counts[keys[i]]]) = k * (k - 1)
            /\ \A f1, f2 \in ToSet(remaining_features) :
                  ~(/\ _is_feature_better(feature_metrics[f1], feature_metrics[f2])
                    /\ _is_feature_better(feature_metrics[f2], feature_metrics[f1]))

\* a round of two distinct candidates in which the second one wins the pair
C29_Witness ==
    /\ RoundEnded
    /\ Len(sel.remaining_features) = 2
    /\ sel.remaining_features[1] # sel.remaining_features[2]
    /\ WinCounts(sel.remaining_features, Val(sel.feature_metrics))[sel.remaining_features[2]] = 1

\* ------------------------------------------------ the prediction cache
\* C30: the neutral fallback prediction is never in the prediction cache:
\* every entry is a prediction computed from a posterior, and the pair of a
\* predict_preference call that fell back to the neutral prediction is not
\* cached, so that the next call for it computes again.
C30_FallbackNeverCached ==
    /\ \A key \in DOMAIN model.prediction_cache :
          /\ model.prediction_cache[key] # NeutralPrediction
          /\ model.prediction_cache[key].features_used # <<>>
          /\ model.prediction_cache[key].gen >= 1
    /\ (ret.op = "predict_preference" /\ ret.kind = "value" /\ ret.failed) =>
          /\ ret.value = NeutralPrediction
          /\ ret.cache_key \notin DOMAIN model.prediction_cache

\* a fitted model holding a cached prediction fell back to the neutral
\* prediction for a pair of two-letter bigrams
C30_Witness ==
    /\ ret.op = "predict_preference" /\ ret.kind = "value" /\ ret.failed
    /\ Len(ret.cache_key[1]) = 2 /\ Len(ret.cache_key[2]) = 2
    /\ model.fit_result # None
    /\ DOMAIN model.prediction_cache # {}

====
